---- MODULE Spec2Model ----
(***************************************************************************)
(* Polling / retention core of the bakery sensor dashboard:                *)
(*   - the store (sensors, sensor_readings) and the two ingestion paths    *)
(*     of polling_service.py,                                              *)
(*   - the retention engine of data_retention.py,                          *)
(*   - the token manager / API client of sensorpush_api.py,                *)
(*   - the scheduler-facing life cycle of PollingService.                  *)
(* Time is counted in days for the store and in minutes for the token.     *)
(***************************************************************************)
EXTENDS Integers, Sequences, FiniteSets, TLC

(***************************************************************************)
(* Bounds of the model.                                                    *)
(***************************************************************************)
MaxEntries == 2      \* reading entries in one samples payload
MaxTicks == 2        \* clock advances
TickDays == 90       \* days per clock advance

(***************************************************************************)
(* Exception classes and the subclass relation that except clauses use.    *)
(***************************************************************************)
NoExc == "none"

ExcParent ==
    [ SensorPushAPIError  |-> "Exception",
      AuthenticationError |-> "SensorPushAPIError",
      TokenExpiredError   |-> "SensorPushAPIError",
      APIConnectionError  |-> "SensorPushAPIError",
      RequestException    |-> "Exception",
      HTTPError           |-> "RequestException",
      ConnectionError     |-> "RequestException",
      Timeout             |-> "RequestException",
      SQLAlchemyError     |-> "Exception",
      ValueError          |-> "Exception",
      JSONDecodeError     |-> "ValueError",
      RequestsJSONDecodeError |-> "RequestException",
      TypeError           |-> "Exception",
      AttributeError      |-> "Exception",
      OverflowError       |-> "Exception",
      PollingServiceError |-> "Exception",
      DataRetentionError  |-> "Exception",
      Exception           |-> "Exception" ]

\* the classes of an exception, from its own up to Exception
Ancestors(e) ==
    IF e = NoExc THEN {}
    ELSE {e, ExcParent[e], ExcParent[ExcParent[e]], ExcParent[ExcParent[ExcParent[e]]]}

\* isinstance(e, cls) for an exception class name e
IsA(e, cls) == cls \in Ancestors(e)

\* F applied to the value of x, x evaluated once
With(x, F(_)) == CHOOSE y \in {F(v) : v \in {x}} : TRUE

(***************************************************************************)
(* The store: sensors and sensor_readings.  sensor_readings has a          *)
(* surrogate key only, so the table is a bag over (sensor_id, timestamp).  *)
(***************************************************************************)
Sensors == {"S1", "S2"}
SensorOrder == <<"S1", "S2">>          \* iteration order of the payload dict

Day0 == 739925                          \* utcnow() at the start, as a day number
Ages == {1, 40, 180, 200, 400}
Stamps == {Day0 - a : a \in Ages}       \* timestamps a stored reading may carry
PayloadStamps == {Day0 - 200, Day0 - 1} \* timestamps the API reports

VARIABLES
    readings,     \* [Sensors \X Stamps -> Nat]: committed rows of sensor_readings
    sensors,      \* [Sensors -> {"absent", "active", "inactive"}]: rows of sensors
    today,        \* the clock, in days
    ticks,        \* clock advances so far
    lastCall,     \* the result of the call that has just returned, NoCall otherwise
    replay        \* the payload the API delivers again at the next poll

storeVars == <<readings, sensors, today, ticks, lastCall, replay>>

VARIABLES
    accessToken,     \* SensorPushAPI._access_token is set
    tokenExpiresAt,  \* SensorPushAPI._token_expires_at, in minutes; NoExpiry for None
    clock,           \* datetime.now(), in minutes
    clockTicks,      \* advances of clock so far
    apiCall          \* the result of the client call that has just returned

apiVars == <<accessToken, tokenExpiresAt, clock, clockTicks, apiCall>>

VARIABLES
    isRunning,       \* PollingService._is_running
    schedRunning,    \* self.scheduler.running
    stopping,        \* how far a stop() in progress has come: "no", "removed", "waiting"
    jobs,            \* ids of the jobs registered with the scheduler
    due,             \* registered jobs whose next_run_time has come
    execs,           \* per job, the executions in progress
    counters,        \* per job, the listener's successful / failed counters
    lastTime,        \* _last_poll_time, _last_purge_time (NoTime: None)
    triggered,       \* jobs whose pending firing was set by trigger_immediate_*
    svcCall          \* the result of the service call, or the scheduler event, just handled

svcVars ==
    <<isRunning, schedRunning, stopping, jobs, due, execs, counters, lastTime, triggered, svcCall>>

VARIABLES
    pollingInterval, \* PollingService.polling_interval, in minutes
    pollTrigger      \* minutes of the registered poll job's IntervalTrigger, NoTrigger if none

cfgVars == <<pollingInterval, pollTrigger>>

VARIABLES
    appCreated,      \* the application create_app has made: "none", "served", "temp"
    workerRunning,   \* gunicorn_config.polling_service_instance is a started service
    handled          \* application contexts that have ended so far

(* Manager authentication (auth.py) over the manager_auth, login_attempts  *)
(* and manager_sessions tables.                                            *)
VARIABLES
    pinHash,         \* manager_auth.pin_hash of the one row, NoPin when the table is empty
    loginAttempts,   \* [Ips -> Seq([success, at])]: rows of login_attempts, by ip_address
    sessionsCreated, \* [Ips -> Nat]: rows of manager_sessions, by ip_address
    authClock,       \* datetime.now(UTC), in ticks
    authCall         \* the last call of AuthManager and what it gave

authVars == <<pinHash, loginAttempts, sessionsCreated, authClock, authCall>>

appVars == <<appCreated, workerRunning, handled, authVars>>

vars == <<storeVars, apiVars, svcVars, cfgVars, appVars>>

EmptyTable == [c \in Sensors \X Stamps |-> 0]

(***************************************************************************)
(* Payload values.                                                         *)
(***************************************************************************)
NoneVal == [k |-> "none", t |-> 0]
BadIso == [k |-> "badiso", t |-> 0]                \* a string fromisoformat rejects
Iso(t) == [k |-> "iso", t |-> t]                    \* an ISO string, 'Z' or offset form
Epoch(t) == [k |-> "epoch", t |-> t]                \* a Unix timestamp (int or float)

\* datetime.fromisoformat(s.replace('Z', '+00:00')); the DateTime column keeps
\* the wall-clock fields only
FromIsoFormat(v) ==
    IF v.k = "iso" THEN [exc |-> NoExc, ts |-> v.t]
    ELSE [exc |-> "ValueError", ts |-> 0]

NotADict == [shape |-> "other", observed |-> NoneVal, temperature |-> "none"]
Entry(obs, temp) == [shape |-> "dict", observed |-> obs, temperature |-> temp]

\* the entries a samples payload may list; humidity follows temperature
Entries ==
    {Entry(Iso(t), "num") : t \in PayloadStamps}
        \cup {Entry(Iso(Day0 - 1), "none"), Entry(BadIso, "num"),
              Entry(Iso(Day0 - 1), "bad"), NotADict}

\* the value a samples payload holds under one sensor id
SeqUpTo(S, n) == UNION {[1..k -> S] : k \in 0..n}
AbsentKey == [kind |-> "absent", items |-> <<>>]
NotAList == [kind |-> "notalist", items |-> <<>>]
ListOf(q) == [kind |-> "list", items |-> q]
SamplesValues == {AbsentKey, NotAList} \cup {ListOf(q) : q \in SeqUpTo(Entries, MaxEntries)}
\* the second sensor of a payload is absent, malformed or reports one reading
SecondValues == {AbsentKey, NotAList, ListOf(<<Entry(Iso(Day0 - 1), "num")>>)}

EntryCount(p) ==
    LET RECURSIVE Sum(_)
        Sum(i) == IF i > Len(SensorOrder) THEN 0
                  ELSE Len(p[SensorOrder[i]].items) + Sum(i + 1)
    IN Sum(1)

\* RawSamplesPayload: {"sensors": {sensor_id: [entry, ...]}}
SamplesPayloads ==
    {p \in [Sensors -> SamplesValues] : p["S2"] \in SecondValues /\ EntryCount(p) <= MaxEntries}
NoPayload == [s \in Sensors |-> [kind |-> "nopayload", items |-> <<>>]]

(***************************************************************************)
(* Sessions.  SessionLocal is made with autoflush=False, so a query inside *)
(* a session reads the committed rows and not the rows the session has     *)
(* added and not yet committed.                                            *)
(***************************************************************************)
Autoflush == FALSE

\* the existence check left out
ExistingReadingSkipped(tbl, pend, sid, ts) == FALSE

\* session.query(SensorReading).filter(sensor_id == sid, timestamp == ts).first()
ExistingReading(tbl, pend, sid, ts) ==
    tbl[<<sid, ts>>] > 0 \/ (Autoflush /\ pend[<<sid, ts>>] > 0)

\* session.query(Sensor).filter(Sensor.sensor_id == sid).first()
ExistingSensor(sens, sid) == sens[sid] # "absent"

\* session.commit(): the pending rows join the table
Commit(tbl, pend) == [c \in Sensors \X Stamps |-> tbl[c] + pend[c]]

\* the work of the session kept
RollbackKeeps(tbl, work) == work

\* get_db_session_context on an exception in the block or in its commit:
\* session.rollback() discards the work of the session
Rollback(tbl, work) == tbl

StorageFaults == {"none", "query", "commit"}

(***************************************************************************)
(* PollingService._process_samples_data                                    *)
(***************************************************************************)
NoAcc == [pend |-> EmptyTable, made |-> {}, new |-> 0, dup |-> 0, exc |-> NoExc]

\* body of "for reading in readings", lines 280-320
SamplesEntry(tbl, sid, e, acc) ==
    IF e.shape # "dict" THEN [acc EXCEPT !.exc = "AttributeError"]
    ELSE IF e.observed.k = "none" \/ e.temperature = "none" THEN acc
    ELSE LET parsed == FromIsoFormat(e.observed) IN
         IF parsed.exc # NoExc THEN acc
         ELSE IF ExistingReading(tbl, acc.pend, sid, parsed.ts)
              THEN [acc EXCEPT !.dup = @ + 1]
         ELSE IF e.temperature = "bad" THEN acc
         ELSE [acc EXCEPT !.pend[<<sid, parsed.ts>>] = @ + 1, !.new = @ + 1]

RECURSIVE SamplesEntries(_, _, _, _, _)
SamplesEntries(tbl, sid, items, i, acc) ==
    IF i > Len(items) \/ acc.exc # NoExc THEN acc
    ELSE SamplesEntries(tbl, sid, items, i + 1, SamplesEntry(tbl, sid, items[i], acc))

\* body of "for sensor_id, readings in sensors_data.items()", lines 257-320
SamplesSensor(tbl, sens, sid, val, acc) ==
    IF val.kind # "list" THEN acc
    ELSE LET withSensor == IF ExistingSensor(sens, sid) THEN acc
                           ELSE [acc EXCEPT !.made = @ \cup {sid}]
         IN SamplesEntries(tbl, sid, val.items, 1, withSensor)

RECURSIVE SamplesSensors(_, _, _, _, _)
SamplesSensors(tbl, sens, p, i, acc) ==
    IF i > Len(SensorOrder) \/ acc.exc # NoExc THEN acc
    ELSE LET sid == SensorOrder[i] IN
         SamplesSensors(tbl, sens, p, i + 1,
             IF p[sid].kind = "absent" THEN acc
             ELSE SamplesSensor(tbl, sens, sid, p[sid], acc))

HasKeys(p) == \E s \in Sensors : p[s].kind # "absent"

\* the whole call: [exc, readings, sensors, new, dup]
ProcessSamples(tbl, sens, p, fault) ==
    LET acc == SamplesSensors(tbl, sens, p, 1, NoAcc)
        exc == IF fault = "query" /\ HasKeys(p) THEN "SQLAlchemyError"
               ELSE IF acc.exc # NoExc THEN acc.exc
               ELSE IF fault = "commit" THEN "SQLAlchemyError"
               ELSE NoExc
        \* what the session has added when the call ends
        done == IF fault = "query" /\ HasKeys(p) THEN NoAcc ELSE acc
        withMade == [s \in Sensors |-> IF s \in done.made THEN "active" ELSE sens[s]]
    IN IF exc # NoExc
       THEN [exc |-> exc, readings |-> Rollback(tbl, Commit(tbl, done.pend)),
             sensors |-> Rollback(sens, withMade), new |-> 0, dup |-> 0]
       ELSE [exc |-> NoExc, readings |-> Commit(tbl, done.pend), sensors |-> withMade,
             new |-> acc.new, dup |-> acc.dup]

(***************************************************************************)
(* PollingService._process_status_data                                     *)
(***************************************************************************)
\* datetime.fromtimestamp(ts): the local wall clock of the instant; the offset
\* to UTC is below the day the model counts in
FromTimestamp(v) == v.t

StatusTimestamps == {NoneVal, BadIso, Epoch(Day0 - 1), Iso(Day0 - 200)}

StatusEntry(temp, st) == [shape |-> "dict", temperature |-> temp, status |-> st]
StatusNotADict == [shape |-> "other", temperature |-> "none", status |-> "offline"]
StatusAbsent == [shape |-> "absent", temperature |-> "none", status |-> "offline"]
\* the status field is "active", another string, or not a string at all
StatusEntries ==
    {StatusEntry("num", "active"), StatusEntry("num", "offline"), StatusEntry("none", "active"),
     StatusEntry("bad", "offline"), StatusEntry("num", "nonstr"), StatusNotADict}

\* RawStatusPayload: {"sensors": {sensor_id: {...}}, "timestamp": ...}
StatusPayloads ==
    [timestamp : StatusTimestamps, sensors : [Sensors -> StatusEntries \cup {StatusAbsent}]]

NoSnapshot ==
    [timestamp |-> NoneVal,
     sensors |-> [s \in Sensors |-> [shape |-> "nosnapshot", temperature |-> "none",
                                     status |-> "offline"]]]

\* lines 413-444: the reading of one sensor of the snapshot
StatusReading(tbl, sid, e, ts, acc) ==
    IF e.temperature = "none" \/ ts.k = "none" THEN acc
    ELSE LET parsed == IF ts.k = "epoch"
                       THEN [exc |-> NoExc, ts |-> FromTimestamp(ts)]
                       ELSE FromIsoFormat(ts)
         IN IF parsed.exc # NoExc THEN acc
            ELSE IF ExistingReading(tbl, acc.pend, sid, parsed.ts) THEN acc
            ELSE IF e.temperature = "bad" THEN acc
            ELSE [acc EXCEPT !.pend[<<sid, parsed.ts>>] = @ + 1, !.new = @ + 1]

\* body of "for sensor_id, sensor_status in sensors_data.items()", lines 374-449
StatusSensor(tbl, sid, e, ts, acc) ==
    IF e.shape # "dict" THEN [acc EXCEPT !.exc = "AttributeError"]
    ELSE IF e.status = "nonstr" THEN [acc EXCEPT !.exc = "AttributeError"]
    ELSE LET isActive == IF e.status = "active" THEN "active" ELSE "inactive"
             marked == IF acc.sens[sid] = isActive THEN acc
                       ELSE [acc EXCEPT !.sens[sid] = isActive, !.dup = @ + 1]
         IN StatusReading(tbl, sid, e, ts, marked)

RECURSIVE StatusSensors(_, _, _, _)
StatusSensors(tbl, sp, i, acc) ==
    IF i > Len(SensorOrder) \/ acc.exc # NoExc THEN acc
    ELSE LET sid == SensorOrder[i] IN
         StatusSensors(tbl, sp, i + 1,
             IF sp.sensors[sid].shape = "absent" THEN acc
             ELSE StatusSensor(tbl, sid, sp.sensors[sid], sp.timestamp, acc))

StatusHasKeys(sp) == \E s \in Sensors : sp.sensors[s].shape # "absent"

\* the whole call: [exc, readings, sensors, new (readings_added), dup (sensors_updated)]
ProcessStatus(tbl, sens, sp, fault) ==
    LET acc == StatusSensors(tbl, sp, 1,
                   [pend |-> EmptyTable, sens |-> sens, new |-> 0, dup |-> 0, exc |-> NoExc])
        exc == IF fault = "query" /\ StatusHasKeys(sp) THEN "SQLAlchemyError"
               ELSE IF acc.exc # NoExc THEN acc.exc
               ELSE IF fault = "commit" THEN "SQLAlchemyError"
               ELSE NoExc
        \* what the session has changed when the call ends
        done == IF fault = "query" /\ StatusHasKeys(sp)
                THEN [pend |-> EmptyTable, sens |-> sens]
                ELSE [pend |-> acc.pend, sens |-> acc.sens]
    IN IF exc # NoExc
       THEN [exc |-> exc, readings |-> Rollback(tbl, Commit(tbl, done.pend)),
             sensors |-> Rollback(sens, done.sens), new |-> 0, dup |-> 0]
       ELSE [exc |-> NoExc, readings |-> Commit(tbl, done.pend), sensors |-> done.sens,
             new |-> acc.new, dup |-> acc.dup]

(***************************************************************************)
(* data_retention.purge_old_readings                                       *)
(***************************************************************************)
MinRetentionMonths == 6
DaysPerMonth == 30

\* DATA_RETENTION_MONTHS values an operator may configure
Retentions == {-1, 0, 3, 6, 7, 14, 40000}

\* the configured value taken as it is
EffectiveMonthsNoFloor(m) == m

\* max(config.DATA_RETENTION_MONTHS, 6)
EffectiveMonths(m) == IF m > MinRetentionMonths THEN m ELSE MinRetentionMonths

RetentionDays(m) == EffectiveMonths(m) * DaysPerMonth

\* datetime.utcnow() - timedelta(days=...) raises OverflowError when the
\* timedelta or the resulting date is out of range
CutoffOverflows(now, m) == RetentionDays(m) > 999999999 \/ now - RetentionDays(m) < 1

CutoffDate(now, m) == now - RetentionDays(m)

\* the cutoff instant itself taken as old
OlderThanInclusive(tbl, cutoff) == {c \in Sensors \X Stamps : tbl[c] > 0 /\ c[2] <= cutoff}

\* filter(SensorReading.timestamp < cutoff_date)
OlderThan(tbl, cutoff) == {c \in Sensors \X Stamps : tbl[c] > 0 /\ c[2] < cutoff}

CountRows(tbl, cells) ==
    LET RECURSIVE Sum(_)
        Sum(S) == IF S = {} THEN 0
                  ELSE LET c == CHOOSE x \in S : TRUE IN tbl[c] + Sum(S \ {c})
    IN Sum(cells)

PurgeFaults == {"none", "count", "delete", "commit"}

\* lines 340-374, the block under get_db_session_context:
\* [exc, at (the statement that raised), deleted, readings]
PurgeTransaction(tbl, cutoff, fault) ==
    LET old == OlderThan(tbl, cutoff)
        n == CountRows(tbl, old)
        work == [c \in Sensors \X Stamps |-> IF c \in old THEN 0 ELSE tbl[c]]
        at == IF fault = "count" THEN "count"
              ELSE IF fault = "delete" /\ n > 0 THEN "delete"
              ELSE IF fault = "commit" THEN "commit"
              ELSE "none"
    IN IF at # "none"
       THEN [exc |-> "SQLAlchemyError", at |-> at, deleted |-> 0,
             readings |-> Rollback(tbl, IF at = "commit" THEN work ELSE tbl)]
       ELSE [exc |-> NoExc, at |-> "none", deleted |-> n, readings |-> work]

\* the except clauses raising DataRetentionError, as the module's other functions do
PurgeOutcomeRaises(tx) ==
    IF IsA(tx.exc, "Exception")
    THEN [raised |-> "DataRetentionError", success |-> FALSE, deleted |-> 0]
    ELSE [raised |-> NoExc, success |-> TRUE, deleted |-> tx.deleted]

\* lines 376-400: the two except clauses turn an exception into a failure result
PurgeOutcome(tx) ==
    IF IsA(tx.exc, "SQLAlchemyError") \/ IsA(tx.exc, "Exception")
    THEN [raised |-> NoExc, success |-> FALSE, deleted |-> 0]
    ELSE [raised |-> NoExc, success |-> TRUE, deleted |-> tx.deleted]

\* the whole call: [raised, success, deleted, cutoff, months, at, readings]
PurgeOldReadings(tbl, now, m, fault) ==
    IF CutoffOverflows(now, m)
    THEN [raised |-> "OverflowError", success |-> FALSE, deleted |-> 0, cutoff |-> 0,
          months |-> EffectiveMonths(m), at |-> "none", readings |-> tbl]
    ELSE LET cutoff == CutoffDate(now, m)
             tx == PurgeTransaction(tbl, cutoff, fault)
             out == PurgeOutcome(tx)
         IN [raised |-> out.raised, success |-> out.success, deleted |-> out.deleted,
             cutoff |-> cutoff, months |-> EffectiveMonths(m), at |-> tx.at,
             readings |-> tx.readings]

(***************************************************************************)
(* The API client (sensorpush_api.py).  A server answer is a record: a     *)
(* network-level failure, or an HTTP status with the kind of body it       *)
(* carries.  The client's token state is [tok, exp].                       *)
(***************************************************************************)
BufferMinutes == 5            \* is_token_valid: timedelta(minutes=5)
DefaultExpiresIn == 1380      \* 23 * 3600 seconds, in minutes
ShortExpiresIn == 4           \* an expires_in of 240 seconds, in minutes
BriefExpiresIn == 6           \* an expires_in of 360 seconds, in minutes
MaxRetries == 1               \* max_retries
NoExpiry == 0 - 1             \* _token_expires_at is None

NetFailures == {"ConnectionError", "Timeout", "RequestException"}

NetFail(e) == [net |-> e, status |-> 0, body |-> "none", expires |-> "absent"]
Resp(status, body) == [net |-> NoExc, status |-> status, body |-> body, expires |-> "absent"]
TokenResp(expires) == [net |-> NoExc, status |-> 200, body |-> "token", expires |-> expires]

\* response.raise_for_status(): HTTPError for 4xx and 5xx
RaiseForStatus(resp) == IF resp.status >= 400 /\ resp.status < 600 THEN "HTTPError" ELSE NoExc

\* response.json(): before requests 2.27 a json.JSONDecodeError, from 2.27 on
\* requests.exceptions.JSONDecodeError, which is a RequestException as well
ResponseJson(resp) ==
    IF resp.body = "notjson" THEN "JSONDecodeError"
    ELSE IF resp.body = "notjson27" THEN "RequestsJSONDecodeError"
    ELSE NoExc

\* except json.JSONDecodeError, except RequestException
IsJSONDecodeError(e) == e = "RequestsJSONDecodeError" \/ IsA(e, "JSONDecodeError")

IsRequestException(e) == IsA(e, "RequestException")

\* the message an APIConnectionError carries for a requests exception
ConnectionMessage(e) ==
    IF IsA(e, "ConnectionError") THEN "Connection error"
    ELSE IF IsA(e, "Timeout") THEN "Request timeout"
    ELSE "Request error"

\* one entry of the call's trace: a contact of an endpoint, or the token cleared
Ev(ev, resp) == [ev |-> ev, status |-> resp.status, net |-> resp.net]
ClearEv == [ev |-> "clear", status |-> 0, net |-> NoExc]

TokenState(tok, exp) == [tok |-> tok, exp |-> exp]
NoToken == TokenState(FALSE, NoExpiry)

ApiResult(st, exc, msg, ret, body, trace) ==
    [st |-> st, exc |-> exc, msg |-> msg, ret |-> ret, body |-> body, trace |-> trace]

\* token_response.get('expires_in', 23 * 3600)
ExpiresInMinutes(resp) ==
    IF resp.expires = "short" THEN ShortExpiresIn
    ELSE IF resp.expires = "brief" THEN BriefExpiresIn
    ELSE DefaultExpiresIn

\* _exchange_auth_code_for_token: every failure leaves as AuthenticationError
ExchangeAuthCodeForToken(st, now, x) ==
    LET tr == <<Ev("accesstoken", x)>>
        Fail(s, msg) == ApiResult(s, "AuthenticationError", msg, FALSE, "none", tr)
    IN  IF x.net # NoExc THEN Fail(st, "Token exchange error")
        ELSE IF RaiseForStatus(x) # NoExc THEN Fail(st, "Token exchange failed")
        ELSE IF ResponseJson(x) # NoExc THEN Fail(st, "Invalid token response")
        ELSE IF x.body # "token" THEN Fail(st, "Token exchange error")
        ELSE IF x.expires = "bad" THEN Fail([st EXCEPT !.tok = TRUE], "Token exchange error")
        ELSE ApiResult(TokenState(TRUE, now + ExpiresInMinutes(x)), NoExc, "none", TRUE,
                       "none", tr)

\* authenticate: a = [authorize, exchange] are the answers of the two endpoints
Authenticate(st, now, a) ==
    LET r == a.authorize
        tr == <<Ev("authorize", r)>>
        Fail(exc, msg) == ApiResult(st, exc, msg, FALSE, "none", tr)
    IN  IF r.net # NoExc THEN Fail("APIConnectionError", ConnectionMessage(r.net))
        ELSE IF RaiseForStatus(r) # NoExc THEN
            Fail("AuthenticationError",
                 IF r.status = 401 THEN "Invalid username or password"
                 ELSE IF r.status = 403 THEN "Account access forbidden"
                 ELSE "HTTP error during authentication")
        ELSE IF IsRequestException(ResponseJson(r)) THEN
            Fail("APIConnectionError", ConnectionMessage(ResponseJson(r)))
        ELSE IF IsJSONDecodeError(ResponseJson(r)) THEN
            Fail("AuthenticationError", "Invalid JSON response")
        ELSE IF r.body # "code" THEN
            Fail("AuthenticationError", "Unexpected authentication error")
        ELSE LET x == ExchangeAuthCodeForToken(st, now, a.exchange) IN
             IF x.exc # NoExc
             THEN ApiResult(x.st, "AuthenticationError", "Unexpected authentication error",
                            FALSE, "none", tr \o x.trace)
             ELSE ApiResult(x.st, NoExc, "none", x.ret, "none", tr \o x.trace)

AuthorizeResponses ==
    {NetFail(e) : e \in NetFailures}
        \cup {Resp(401, "none"), Resp(403, "none"), Resp(500, "none")}
        \cup {Resp(200, b) : b \in {"notjson", "notjson27", "nokey", "nocode", "code"}}

ExchangeResponses ==
    {NetFail("ConnectionError"), Resp(500, "none"), Resp(200, "notjson"),
     Resp(200, "notoken")}
        \cup {TokenResp(x) : x \in {"absent", "short", "bad"}}

\* the second answer matters only when the first carries an authorization code
AuthScenarios ==
    {[authorize |-> r, exchange |-> x] : r \in AuthorizeResponses, x \in ExchangeResponses}
        \ {a \in [authorize : AuthorizeResponses, exchange : ExchangeResponses] :
              a.authorize.body # "code" /\ a.exchange # Resp(500, "none")}

\* the expiry compared with the current time, without the buffer
IsTokenValidNoBuffer(st, now) ==
    IF ~st.tok THEN FALSE
    ELSE IF st.exp = NoExpiry THEN FALSE
    ELSE st.exp > now

\* is_token_valid
IsTokenValid(st, now) ==
    IF ~st.tok THEN FALSE
    ELSE IF st.exp = NoExpiry THEN FALSE
    ELSE st.exp > now + BufferMinutes

EnsureValidToken(st, now, a) ==
    IF IsTokenValid(st, now) THEN ApiResult(st, NoExc, "none", TRUE, "none", <<>>)
    ELSE Authenticate(st, now, a)

\* get_auth_headers
GetAuthHeaders(st, now, a) ==
    With(EnsureValidToken(st, now, a), LAMBDA e :
        IF e.exc = NoExc /\ ~e.ret
        THEN ApiResult(e.st, "AuthenticationError", "Unable to obtain valid access token",
                       FALSE, "none", e.trace)
        ELSE e)

\* what the server answers during one call: the answers of the authentication
\* endpoints, one per authenticate(), and of the data endpoint, one per send;
\* the last answer is repeated when more are asked for
NthOf(q, i) == q[IF i > Len(q) THEN Len(q) ELSE i]

\* the authenticate() calls a step of the call has made
Authentications(tr) == Cardinality({i \in 1..Len(tr) : tr[i].ev = "authorize"})

DataResponses ==
    {NetFail(e) : e \in NetFailures}
        \cup {Resp(s, "none") : s \in {400, 401, 403, 404, 500}}
        \cup {Resp(200, b) : b \in {"dict", "notdict", "notjson"}}

\* the second data answer matters only after a 401
DataScripts == {<<d1, d2>> : d1 \in {Resp(401, "none")}, d2 \in DataResponses}
                   \cup {<<d>> : d \in DataResponses \ {Resp(401, "none")}}

\* the second authentication matters only when a first one ended well
AuthScripts ==
    {<<a1, a2>> : a1 \in {a \in AuthScenarios : a.exchange.body = "token"},
                  a2 \in AuthScenarios}
        \cup {<<a>> : a \in {b \in AuthScenarios : b.exchange.body # "token"}}

Scripts == [auths : AuthScripts, data : DataScripts]

RetryNever(retry_count) == FALSE

\* if retry_count < max_retries
RetryAllowed(retry_count) == retry_count < MaxRetries

\* the request is sent and the answer d handled; st, tr are the token and the
\* trace at the send
RECURSIVE RequestAttempt(_, _, _, _, _)
RequestSend(st, now, script, retry_count, d, tr) ==
    IF d.net # NoExc
    THEN ApiResult(st, "APIConnectionError", ConnectionMessage(d.net), FALSE, "none", tr)
    ELSE IF d.status = 401
    THEN IF RetryAllowed(retry_count)
         THEN RequestAttempt([st EXCEPT !.tok = FALSE], now, script, retry_count + 1,
                             Append(tr, ClearEv))
         ELSE ApiResult([st EXCEPT !.tok = FALSE], "TokenExpiredError",
                        "Access token expired after retry attempt", FALSE, "none",
                        Append(tr, ClearEv))
    ELSE IF IsRequestException(RaiseForStatus(d))
    THEN ApiResult(st, "APIConnectionError", ConnectionMessage(RaiseForStatus(d)),
                   FALSE, "none", tr)
    ELSE ApiResult(st, NoExc, "none", TRUE, d.body, tr)

\* one iteration of the while loop of make_authenticated_request and what
\* follows it: ensure_valid_token, get_auth_headers, the send
RequestAttempt(st, now, script, retry_count, trace) ==
    With(<<st, trace, retry_count>>, LAMBDA in :
    IF in[3] > MaxRetries
    THEN ApiResult(in[1], "SensorPushAPIError",
                   "Failed to make authenticated request after retries", FALSE, "none", in[2])
    ELSE
    With(EnsureValidToken(in[1], now, NthOf(script.auths, Authentications(in[2]) + 1)),
         LAMBDA e1 :
    IF e1.exc # NoExc
    THEN ApiResult(e1.st, e1.exc, e1.msg, FALSE, "none", in[2] \o e1.trace)
    ELSE
    With(GetAuthHeaders(e1.st, now,
                        NthOf(script.auths, Authentications(in[2] \o e1.trace) + 1)),
         LAMBDA e2 :
    IF e2.exc # NoExc
    THEN ApiResult(e2.st, e2.exc, e2.msg, FALSE, "none", in[2] \o e1.trace \o e2.trace)
    ELSE
    With(NthOf(script.data, in[3] + 1), LAMBDA d :
    With(Append(in[2] \o e1.trace \o e2.trace, Ev("data", d)), LAMBDA tr :
        RequestSend(e2.st, now, script, in[3], d, tr))))))

MakeAuthenticatedRequest(st, now, script) == RequestAttempt(st, now, script, 0, <<>>)

\* the message get_samples / get_status give an HTTP status
StatusMessage(name, status) ==
    IF status = 400 THEN "Bad request - check your parameters"
    ELSE IF status = 403 THEN "Forbidden - insufficient permissions"
    ELSE IF status = 404 THEN name \o " endpoint not found"
    ELSE IF status >= 500 THEN "Server error - please try again later"
    ELSE "HTTP error retrieving " \o name

\* the status of the answer that ended the request
LastStatus(tr) ==
    LET ds == {i \in 1..Len(tr) : tr[i].ev = "data"} IN
    IF ds = {} THEN 0 ELSE tr[CHOOSE i \in ds : \A j \in ds : j <= i].status

\* get_samples and get_status: the request, response.json(), the shape check
\* and the except clauses
EndpointCall(name, st, now, script) ==
    With(MakeAuthenticatedRequest(st, now, script), LAMBDA r :
        IF r.exc # NoExc THEN
            IF \/ IsA(r.exc, "AuthenticationError")
               \/ IsA(r.exc, "APIConnectionError")
               \/ IsA(r.exc, "TokenExpiredError")
            THEN r
            ELSE IF IsA(r.exc, "HTTPError")
            THEN [r EXCEPT !.exc = "SensorPushAPIError",
                           !.msg = StatusMessage(name, LastStatus(r.trace))]
            ELSE [r EXCEPT !.exc = "SensorPushAPIError",
                           !.msg = "Unexpected error retrieving " \o name]
        ELSE IF IsJSONDecodeError(ResponseJson(r))
        THEN [r EXCEPT !.exc = "SensorPushAPIError", !.ret = FALSE, !.body = "none",
                       !.msg = "Invalid JSON response from " \o name \o " endpoint"]
        ELSE IF r.body # "dict"
        THEN [r EXCEPT !.exc = "SensorPushAPIError", !.ret = FALSE, !.body = "none",
                       !.msg = "Unexpected error retrieving " \o name]
        ELSE r)

GetSamples(st, now, script) == EndpointCall("Samples", st, now, script)

GetStatus(st, now, script) == EndpointCall("Status", st, now, script)

(***************************************************************************)
(* The client's calls as steps.  A call is one step; its result stays in   *)
(* apiCall until the caller goes on.                                       *)
(***************************************************************************)
MaxClockTicks == 2     \* advances of the client's clock
ClockTick == 690       \* minutes per advance

NoApiCall ==
    [op |-> "none", exc |-> NoExc, msg |-> "none", ret |-> FALSE, body |-> "none",
     trace |-> <<>>]

ApiIdle == apiCall = NoApiCall

ApiToken == TokenState(accessToken, tokenExpiresAt)

ApiCall(op, r) ==
    /\ accessToken' = r.st.tok
    /\ tokenExpiresAt' = r.st.exp
    /\ apiCall' = [op |-> op, exc |-> r.exc, msg |-> r.msg, ret |-> r.ret,
                   body |-> r.body, trace |-> r.trace]
    /\ UNCHANGED <<clock, clockTicks, storeVars, svcVars, cfgVars, appVars>>

\* the answers met by a direct authenticate() or ensure_valid_token()
DirectAuthScenarios ==
    AuthScenarios \cup {[authorize |-> Resp(200, "code"), exchange |-> TokenResp("brief")]}

CallAuthenticate ==
    /\ ApiIdle
    /\ \E a \in DirectAuthScenarios :
          \E r \in {Authenticate(ApiToken, clock, a)} : ApiCall("authenticate", r)

CallEnsureValidToken ==
    /\ ApiIdle
    /\ \E a \in DirectAuthScenarios :
          \E r \in {EnsureValidToken(ApiToken, clock, a)} : ApiCall("ensure", r)

CallMakeAuthenticatedRequest ==
    /\ ApiIdle
    /\ \E s \in Scripts :
          \E r \in {MakeAuthenticatedRequest(ApiToken, clock, s)} : ApiCall("request", r)

CallGetSamples ==
    /\ ApiIdle
    /\ \E s \in Scripts :
          \E r \in {GetSamples(ApiToken, clock, s)} : ApiCall("samples", r)

CallGetStatus ==
    /\ ApiIdle
    /\ \E s \in Scripts :
          \E r \in {GetStatus(ApiToken, clock, s)} : ApiCall("status", r)

\* clear_token
ClearToken ==
    /\ ApiIdle
    /\ accessToken' = FALSE
    /\ tokenExpiresAt' = NoExpiry
    /\ UNCHANGED <<clock, clockTicks, apiCall, storeVars, svcVars, cfgVars, appVars>>

ApiReturn ==
    /\ ~ApiIdle
    /\ apiCall' = NoApiCall
    /\ UNCHANGED <<accessToken, tokenExpiresAt, clock, clockTicks, storeVars, svcVars, cfgVars, appVars>>

\* time passes between calls
AdvanceClock ==
    /\ ApiIdle
    /\ clockTicks < MaxClockTicks
    /\ clock' = clock + ClockTick
    /\ clockTicks' = clockTicks + 1
    /\ UNCHANGED <<accessToken, tokenExpiresAt, apiCall, storeVars, svcVars, cfgVars, appVars>>

\* SensorPushAPI.__init__
ApiInit ==
    /\ accessToken = FALSE
    /\ tokenExpiresAt = NoExpiry
    /\ clock = 0
    /\ clockTicks = 0
    /\ apiCall = NoApiCall

ApiNext ==
    \/ CallAuthenticate
    \/ CallEnsureValidToken
    \/ CallMakeAuthenticatedRequest
    \/ CallGetSamples
    \/ CallGetStatus
    \/ ClearToken
    \/ ApiReturn
    \/ AdvanceClock

(***************************************************************************)
(* PollingService (polling_service.py): the life cycle, the scheduler's    *)
(* handling of the two jobs registered with max_instances=1, the job       *)
(* bodies and the job listener.                                            *)
(***************************************************************************)
JobIds == {"poll", "purge"}       \* _job_id, _purge_job_id
MaxInstances == 1                 \* add_job(..., max_instances=1)
MaxRuns == 2                      \* job executions in one behaviour

\* get_sensors has the shape of get_samples; _get_sensor_names swallows what
\* it raises, so the lookup shows in the client's token only
GetSensors(st, now, script) == EndpointCall("Sensors", st, now, script)

SensorNamesToken(st, now, script, needed) ==
    IF needed THEN GetSensors(st, now, script).st ELSE st

\* API requests made between the opening and the closing of the session of
\* _process_samples_data / _process_status_data: _get_sensor_names is called
\* inside the with get_db_session_context() block when a sensor is new
SessionLookups(needed) == IF needed THEN {"getSensors"} ELSE {}

\* first pass of the two processing functions: ids with no Sensor row
NewSensorIds(sens, keys) == {s \in keys : ~ExistingSensor(sens, s)}

SamplesKeys(p) == {s \in Sensors : p[s].kind # "absent"}

StatusKeys(sp) == {s \in Sensors : sp.sensors[s].shape # "absent"}

\* server behaviours met while polling
OkAuth == [authorize |-> Resp(200, "code"), exchange |-> TokenResp("absent")]
RejectedAuth == [authorize |-> Resp(401, "none"), exchange |-> Resp(500, "none")]
UnreachableAuth == [authorize |-> NetFail("ConnectionError"), exchange |-> Resp(500, "none")]

PollAuthScripts == {<<OkAuth, OkAuth>>, <<RejectedAuth>>, <<UnreachableAuth>>}

PollDataScripts ==
    {<<Resp(200, "dict")>>, <<Resp(401, "none"), Resp(200, "dict")>>,
     <<Resp(401, "none"), Resp(401, "none")>>, <<NetFail("Timeout")>>,
     <<Resp(500, "none")>>, <<Resp(200, "notjson")>>}

PollScripts == [auths : PollAuthScripts, data : PollDataScripts]

LookupScripts ==
    {[auths |-> <<OkAuth, OkAuth>>, data |-> <<Resp(200, "dict")>>],
     [auths |-> <<UnreachableAuth>>, data |-> <<NetFail("Timeout")>>]}

\* payloads met while polling
PollPayloads ==
    {[S1 |-> ListOf(<<e>>), S2 |-> AbsentKey] : e \in {Entry(Iso(Day0 - 1), "num"), NotADict}}

PollStatusPayloads ==
    {[timestamp |-> Epoch(Day0 - 1), sensors |-> [S1 |-> e, S2 |-> StatusAbsent]] :
        e \in {StatusEntry("num", "offline"), StatusNotADict}}

PollFaults == {"none", "commit"}

\* one execution of a job body
NewExec(pc) ==
    [pc |-> pc, calls |-> <<>>, getSamples |-> NoExc, samplesHttp |-> 0,
     processSamples |-> NoExc, getStatus |-> NoExc, processStatus |-> NoExc,
     purge |-> "none", raised |-> NoExc, inSession |-> {}]

NoTime == 0

\* the body leaving the timestamp as it was
StartStampKept(prev) == prev

\* datetime.now() at the start of a job body: later than the start before
StartStamp(prev) == prev + 1

NoTrigger == 0
DefaultInterval == 1              \* get_setting('polling_interval_minutes', '1')
IntervalInputs == {0 - 1, 0, 2, 3}

\* IntervalTrigger(minutes=n) builds timedelta(minutes=n), which holds at most
\* 999999999 days and raises OverflowError above that; the limit is scaled
\* to the intervals of the model
MaxTriggerMinutes == 2

TriggerRaises(minutes) == minutes > MaxTriggerMinutes

NoSvcCall ==
    [op |-> "none", exc |-> NoExc, ret |-> FALSE, was |-> FALSE, missing |-> FALSE, minutes |-> 0,
     authExc |-> NoExc, authRet |-> FALSE, job |-> "none", exec |-> NewExec("none")]

SvcIdle == svcCall = NoSvcCall

Runs ==
    LET Of(j) == counters[j].ok + counters[j].failed + Len(execs[j])
    IN  Of("poll") + Of("purge")

SetToken(st) ==
    /\ accessToken' = st.tok
    /\ tokenExpiresAt' = st.exp

\* an injected client (the api_client argument) whose authenticate() is falsy
FalsyAuthenticate(st) == ApiResult(st, NoExc, "none", FALSE, "none", <<>>)

StartAuthOutcomes(st, now) ==
    {Authenticate(st, now, a) : a \in AuthScenarios} \cup {FalsyAuthenticate(st)}

\* the outcomes of the authenticate() call start() makes; it makes none when
\* the service runs already or the configuration is incomplete
StartAuthCalls(running, missing, st, now) ==
    IF running \/ missing THEN {FalsyAuthenticate(st)} ELSE StartAuthOutcomes(st, now)

\* start() registering the jobs whatever authenticate() gave
StartServiceUnchecked(running, missing, auth) ==
    IF running THEN [exc |-> NoExc, ret |-> TRUE, started |-> FALSE, authCalled |-> FALSE]
    ELSE [exc |-> NoExc, ret |-> TRUE, started |-> TRUE, authCalled |-> ~missing]

\* start(): its checks in order; every failure leaves as PollingServiceError
StartService(running, missing, auth) ==
    IF running THEN [exc |-> NoExc, ret |-> TRUE, started |-> FALSE, authCalled |-> FALSE]
    ELSE IF missing
    THEN [exc |-> "PollingServiceError", ret |-> FALSE, started |-> FALSE,
          authCalled |-> FALSE]
    ELSE IF auth.exc # NoExc \/ ~auth.ret
    THEN [exc |-> "PollingServiceError", ret |-> FALSE, started |-> FALSE,
          authCalled |-> TRUE]
    ELSE [exc |-> NoExc, ret |-> TRUE, started |-> TRUE, authCalled |-> TRUE]

\* add_job(trigger=IntervalTrigger(minutes=self.polling_interval)), lines
\* 499-507, inside the try of start(): a trigger that cannot be built leaves
\* as PollingServiceError with nothing registered
AddJobs(r, interval) ==
    IF r.started /\ TriggerRaises(interval)
    THEN [r EXCEPT !.exc = "PollingServiceError", !.ret = FALSE, !.started = FALSE]
    ELSE r

Start ==
    /\ SvcIdle /\ stopping = "no"
    /\ \E missing \in BOOLEAN :
       \E auth \in StartAuthCalls(isRunning, missing, ApiToken, clock) :
          LET r == AddJobs(StartService(isRunning, missing, auth), pollingInterval) IN
          /\ SetToken(IF r.authCalled THEN auth.st ELSE ApiToken)
          /\ jobs' = IF r.started THEN jobs \cup JobIds ELSE jobs
          /\ pollTrigger' = IF r.started THEN pollingInterval ELSE pollTrigger
          /\ schedRunning' = IF r.started THEN TRUE ELSE schedRunning
          /\ isRunning' = IF isRunning THEN TRUE ELSE r.started
          /\ svcCall' = [NoSvcCall EXCEPT !.op = "start", !.exc = r.exc, !.ret = r.ret,
                                          !.was = isRunning, !.missing = missing,
                                          !.authExc = IF r.authCalled THEN auth.exc ELSE NoExc,
                                          !.authRet = r.authCalled /\ auth.ret]
    /\ UNCHANGED <<stopping, due, execs, counters, pollingInterval, appVars, lastTime, triggered,
                   clock, clockTicks, apiCall, storeVars>>

\* stop(), lines 545-555: both jobs are removed from the scheduler
StopBegin ==
    /\ SvcIdle /\ stopping = "no"
    /\ isRunning
    /\ jobs' = {}
    /\ due' = {}
    /\ triggered' = {}
    /\ pollTrigger' = NoTrigger
    /\ stopping' = "removed"
    /\ UNCHANGED <<isRunning, schedRunning, execs, counters, pollingInterval, appVars, lastTime, svcCall,
                   apiVars, storeVars>>

\* scheduler.shutdown(wait=True) begins: the scheduler stops, and the call
\* waits for the executor's threads
StopShutdown ==
    /\ SvcIdle /\ stopping = "removed"
    /\ schedRunning
    /\ schedRunning' = FALSE
    /\ stopping' = "waiting"
    /\ UNCHANGED <<isRunning, jobs, due, execs, counters, cfgVars, appVars, lastTime, triggered, svcCall,
                   apiVars, storeVars>>

\* shutdown(wait=False): nothing waited for
DrainedNoWait(ex) == TRUE

\* shutdown(wait=True) returns when no execution is in progress
Drained(ex) == \A j \in JobIds : ex[j] = <<>>

\* stop() returns True: shutdown has returned
StopEnd ==
    /\ SvcIdle /\ stopping = "waiting"
    /\ Drained(execs)
    /\ isRunning' = FALSE
    /\ stopping' = "no"
    /\ svcCall' = [NoSvcCall EXCEPT !.op = "stop", !.ret = TRUE, !.was = TRUE]
    /\ UNCHANGED <<schedRunning, jobs, due, execs, counters, cfgVars, appVars, lastTime, triggered,
                   apiVars, storeVars>>

\* stop() returns False: scheduler.shutdown raised (SchedulerNotRunningError
\* when the scheduler is not running; any other error before or after the
\* scheduler changed its state) and "except Exception" returned False, with
\* _is_running as it was
StopFails ==
    /\ SvcIdle /\ stopping \in {"removed", "waiting"}
    /\ stopping' = "no"
    /\ svcCall' = [NoSvcCall EXCEPT !.op = "stop", !.exc = "Exception", !.ret = FALSE,
                                    !.was = TRUE]
    /\ UNCHANGED <<isRunning, schedRunning, jobs, due, execs, counters, cfgVars, appVars, lastTime, triggered,
                   apiVars, storeVars>>

\* stop() on a service that is not running
StopStopped ==
    /\ SvcIdle /\ ~isRunning
    /\ svcCall' = [NoSvcCall EXCEPT !.op = "stop", !.ret = TRUE]
    /\ UNCHANGED <<isRunning, schedRunning, stopping, jobs, due, execs, counters, cfgVars, appVars, lastTime,
                   triggered, apiVars, storeVars>>

\* trigger_immediate_poll / trigger_immediate_purge: job.modify(next_run_time=now)
TriggerImmediate(j) ==
    /\ SvcIdle /\ stopping = "no"
    /\ LET found == isRunning /\ j \in jobs IN
       /\ due' = IF found THEN due \cup {j} ELSE due
       /\ triggered' = IF found THEN triggered \cup {j} ELSE triggered
       /\ svcCall' = [NoSvcCall EXCEPT !.op = "trigger_" \o j, !.ret = found,
                                       !.was = isRunning]
    /\ UNCHANGED <<isRunning, schedRunning, stopping, jobs, execs, counters, cfgVars, appVars, lastTime, apiVars, storeVars>>

TriggerImmediatePoll == TriggerImmediate("poll")

TriggerImmediatePurge == TriggerImmediate("purge")

\* only negative values rejected
IntervalRejectedBelowZero(minutes) == minutes < 0

\* update_polling_interval, line 665: if interval_minutes <= 0
IntervalRejected(minutes) == minutes <= 0

\* the job left with the trigger it had
RescheduledTriggerKept(trigger, minutes) == trigger

\* job.reschedule(trigger=IntervalTrigger(minutes=interval_minutes))
RescheduledTrigger(trigger, minutes) == minutes

\* update_polling_interval for a whole number of minutes (the settings page
\* passes int(...) of the form field).  self.polling_interval is assigned
\* first; job.reschedule gives the poll job the new trigger and the next run
\* time that trigger computes from now, one interval ahead, so a firing that
\* was pending is no longer due.  A trigger that cannot be built is caught by
\* except Exception and False returned.
UpdatePollingInterval ==
    /\ SvcIdle /\ stopping = "no"
    /\ \E minutes \in IntervalInputs :
          LET found == isRunning /\ "poll" \in jobs
              raises == ~IntervalRejected(minutes) /\ found /\ TriggerRaises(minutes)
              rescheduled == ~IntervalRejected(minutes) /\ found /\ ~raises
          IN
          /\ pollingInterval' = IF IntervalRejected(minutes) THEN pollingInterval ELSE minutes
          /\ pollTrigger' = IF rescheduled THEN RescheduledTrigger(pollTrigger, minutes)
                          ELSE pollTrigger
          /\ due' = IF rescheduled THEN due \ {"poll"} ELSE due
          /\ triggered' = IF rescheduled THEN triggered \ {"poll"} ELSE triggered
          /\ svcCall' = [NoSvcCall EXCEPT !.op = "update_polling_interval",
                                          !.minutes = minutes, !.was = isRunning,
                                          !.ret = ~IntervalRejected(minutes)
                                                      /\ (isRunning => found)
                                                      /\ ~raises]
    /\ UNCHANGED <<isRunning, schedRunning, stopping, jobs, execs, counters, lastTime,
                   appVars, apiVars, storeVars>>

\* the caller takes the result and goes on
SvcReturn ==
    /\ ~SvcIdle
    /\ svcCall' = NoSvcCall
    /\ UNCHANGED <<isRunning, schedRunning, stopping, jobs, due, execs, counters, cfgVars, appVars, lastTime,
                   triggered, apiVars, storeVars>>

\* the interval of the poll job elapses, or the purge job's hour comes
TriggerFires ==
    /\ SvcIdle /\ schedRunning
    /\ \E j \in jobs \ due : due' = due \cup {j}
    /\ UNCHANGED <<isRunning, schedRunning, stopping, jobs, execs, counters, cfgVars, appVars, lastTime, triggered,
                   svcCall, apiVars, storeVars>>

\* every firing submitted, whatever is in progress
CanSubmitAlways(running) == TRUE

\* the executor's max_instances check for a job with these executions running
CanSubmit(running) == Len(running) < MaxInstances

\* the poll body entered at its status phase
FirstPcStatus(j) == IF j = "poll" THEN "status" ELSE "purge"

\* where a job body begins
FirstPc(j) == IF j = "poll" THEN "samples" ELSE "purge"

\* the scheduler handles a due job: it submits the job body to the executor,
\* or skips this firing when max_instances executions are in progress
ProcessJobs ==
    /\ SvcIdle /\ schedRunning
    /\ \E j \in due \cap jobs :
          /\ due' = due \ {j}
          /\ triggered' = triggered \ {j}
          /\ IF CanSubmit(execs[j])
             THEN /\ Runs < MaxRuns
                  /\ execs' = [execs EXCEPT ![j] = Append(@, NewExec(FirstPc(j)))]
                  /\ svcCall' = svcCall
             ELSE /\ execs' = execs
                  /\ svcCall' = [NoSvcCall EXCEPT !.op = "max_instances", !.job = j]
    /\ UNCHANGED <<isRunning, schedRunning, stopping, jobs, counters, cfgVars, appVars, lastTime,
                   apiVars, storeVars>>

\* every exception re-raised
PollingJobRaisesAll(e) == e

\* the outer except clauses of _polling_job: what leaves the body when e is
\* raised inside
PollingJobRaises(e) ==
    IF IsA(e, "AuthenticationError") THEN NoExc
    ELSE IF IsA(e, "APIConnectionError") THEN NoExc
    ELSE e

\* the failure of the fetch logged and not re-raised
SamplesFetchSwallowed(e) == NoExc

\* except SensorPushAPIError around get_samples: logged, then "raise"
SamplesFetchRaises(e) == e

\* the processing failure re-raised
ProcessingRaisesAll(e) == e

\* except (SQLAlchemyError, Exception) around _process_samples_data: what
\* leaves the inner try when the processing raises e
ProcessingRaises(e) ==
    IF IsA(e, "SQLAlchemyError") \/ IsA(e, "Exception") THEN NoExc ELSE e

\* every failure of the status phase re-raised
StatusPhaseRaisesAll(e) == e

\* except Exception around get_status and _process_status_data
StatusPhaseRaises(e) == IF IsA(e, "Exception") THEN NoExc ELSE e

\* _polling_job, samples phase: get_samples, then _process_samples_data
PollSamplesPhase ==
    /\ SvcIdle
    /\ \E i \in 1..Len(execs["poll"]), s \in PollScripts :
          \E g \in {GetSamples(ApiToken, clock, s)} :
             /\ execs["poll"][i].pc = "samples"
             /\ IF g.exc # NoExc
                THEN /\ SetToken(g.st)
                     /\ UNCHANGED <<readings, sensors>>
                     /\ execs' = [execs EXCEPT !["poll"][i] =
                                    [@ EXCEPT !.pc = IF SamplesFetchRaises(g.exc) = NoExc
                                                     THEN "status" ELSE "done",
                                              !.getSamples = g.exc,
                                              !.calls = <<"getSamples">>,
                                              !.samplesHttp = LastStatus(g.trace),
                                              !.raised =
                                                  PollingJobRaises(SamplesFetchRaises(g.exc))]]
                ELSE \E p \in PollPayloads, fault \in PollFaults, s2 \in LookupScripts :
                     \E pr \in {ProcessSamples(readings, sensors, p, fault)},
                        st \in {SensorNamesToken(g.st, clock, s2,
                                     NewSensorIds(sensors, SamplesKeys(p)) # {})} :
                        /\ SetToken(st)
                        /\ readings' = pr.readings
                        /\ sensors' = pr.sensors
                        /\ execs' = [execs EXCEPT !["poll"][i] =
                                       [@ EXCEPT !.pc = IF ProcessingRaises(pr.exc) = NoExc
                                                        THEN "status" ELSE "done",
                                                 !.processSamples = pr.exc,
                                                 !.inSession = @ \cup SessionLookups(
                                                     NewSensorIds(sensors, SamplesKeys(p)) # {}),
                                                 !.calls = <<"getSamples", "processSamples">>,
                                                 !.samplesHttp = LastStatus(g.trace),
                                                 !.raised =
                                                     PollingJobRaises(ProcessingRaises(pr.exc))]]
    /\ lastTime' = [lastTime EXCEPT !["poll"] = StartStamp(@)]
    /\ UNCHANGED <<isRunning, schedRunning, stopping, jobs, due, counters, cfgVars, appVars, triggered,
                   svcCall, clock, clockTicks, apiCall, today, ticks, lastCall, replay>>

\* _polling_job, status phase: get_status, then _process_status_data
PollStatusPhase ==
    /\ SvcIdle
    /\ \E i \in 1..Len(execs["poll"]), s \in PollScripts :
          \E g \in {GetStatus(ApiToken, clock, s)} :
             /\ execs["poll"][i].pc = "status"
             /\ IF g.exc # NoExc
                THEN /\ SetToken(g.st)
                     /\ UNCHANGED <<readings, sensors>>
                     /\ execs' = [execs EXCEPT !["poll"][i] =
                                    [@ EXCEPT !.pc = "done", !.getStatus = g.exc,
                                              !.calls = Append(@, "getStatus"),
                                              !.raised =
                                                  PollingJobRaises(StatusPhaseRaises(g.exc))]]
                ELSE \E sp \in PollStatusPayloads, fault \in PollFaults, s2 \in LookupScripts :
                     \E pr \in {ProcessStatus(readings, sensors, sp, fault)},
                        st \in {SensorNamesToken(g.st, clock, s2,
                                     NewSensorIds(sensors, StatusKeys(sp)) # {})} :
                        /\ SetToken(st)
                        /\ readings' = pr.readings
                        /\ sensors' = pr.sensors
                        /\ execs' = [execs EXCEPT !["poll"][i] =
                                       [@ EXCEPT !.pc = "done", !.processStatus = pr.exc,
                                                 !.inSession = @ \cup SessionLookups(
                                                     NewSensorIds(sensors, StatusKeys(sp)) # {}),
                                                 !.calls = @ \o <<"getStatus", "processStatus">>,
                                                 !.raised =
                                                     PollingJobRaises(StatusPhaseRaises(pr.exc))]]
    /\ UNCHANGED <<isRunning, schedRunning, stopping, jobs, due, counters, cfgVars, appVars, lastTime, triggered,
                   svcCall, clock, clockTicks, apiCall, today, ticks, lastCall, replay>>

\* the failure result logged and nothing raised
PurgeJobRaisesNothing(r) == NoExc

\* what leaves _data_purge_job for a result of purge_old_readings
PurgeJobRaises(r) ==
    IF r.raised # NoExc THEN r.raised
    ELSE IF ~r.success THEN "DataRetentionError"
    ELSE NoExc

\* _data_purge_job
PurgeJob ==
    /\ SvcIdle
    /\ \E i \in 1..Len(execs["purge"]), m \in Retentions, fault \in PurgeFaults :
          LET x == execs["purge"][i]
              r == PurgeOldReadings(readings, today, m, fault)
          IN  /\ x.pc = "purge"
              /\ readings' = r.readings
              /\ execs' = [execs EXCEPT !["purge"][i] =
                             [x EXCEPT !.pc = "done", !.raised = PurgeJobRaises(r),
                                       !.calls = <<"purgeOldReadings">>,
                                       !.purge = IF r.raised # NoExc THEN "raised"
                                                 ELSE IF r.success THEN "success"
                                                 ELSE "failure"]]
    /\ lastTime' = [lastTime EXCEPT !["purge"] = StartStamp(@)]
    /\ UNCHANGED <<isRunning, schedRunning, stopping, jobs, due, counters, cfgVars, appVars, triggered,
                   svcCall, apiVars, sensors, today, ticks, lastCall, replay>>

RemoveAt(q, i) == SubSeq(q, 1, i - 1) \o SubSeq(q, i + 1, Len(q))

\* every event counted as a success
CountedAsSuccess(c, raised) == [c EXCEPT !.ok = @ + 1]

\* _job_listener: the counters of the event's job after the event
Counted(c, raised) ==
    IF raised # NoExc THEN [c EXCEPT !.failed = @ + 1] ELSE [c EXCEPT !.ok = @ + 1]

\* the execution ends and the scheduler dispatches EVENT_JOB_EXECUTED or
\* EVENT_JOB_ERROR to _job_listener
JobListener ==
    /\ SvcIdle
    /\ \E j \in JobIds : \E i \in 1..Len(execs[j]) :
          /\ execs[j][i].pc = "done"
          /\ svcCall' = [NoSvcCall EXCEPT !.op = "listener", !.job = j,
                                          !.exc = execs[j][i].raised, !.exec = execs[j][i]]
          /\ counters' = [counters EXCEPT ![j] = Counted(@, execs[j][i].raised)]
          /\ execs' = [execs EXCEPT ![j] = RemoveAt(@, i)]
    /\ UNCHANGED <<isRunning, schedRunning, stopping, jobs, due, lastTime, triggered, cfgVars, appVars,
                   apiVars, storeVars>>

\* PollingService.get_status: the snapshot shown to operators
ServiceStatus ==
    [is_running |-> isRunning /\ schedRunning,
     polling_interval_minutes |-> pollingInterval,
     last_poll_time |-> lastTime["poll"],
     last_purge_time |-> lastTime["purge"],
     successful_polls |-> counters["poll"].ok,
     failed_polls |-> counters["poll"].failed,
     total_polls |-> counters["poll"].ok + counters["poll"].failed,
     successful_purges |-> counters["purge"].ok,
     failed_purges |-> counters["purge"].failed,
     total_purges |-> counters["purge"].ok + counters["purge"].failed,
     scheduler_running |-> schedRunning,
     api_token_valid |-> IsTokenValid(ApiToken, clock)]

\* PollingService.__init__
SvcInit ==
    /\ isRunning = FALSE
    /\ schedRunning = FALSE
    /\ stopping = "no"
    /\ jobs = {}
    /\ due = {}
    /\ execs = [j \in JobIds |-> <<>>]
    /\ counters = [j \in JobIds |-> [ok |-> 0, failed |-> 0]]
    /\ lastTime = [j \in JobIds |-> NoTime]
    /\ triggered = {}
    /\ pollingInterval = DefaultInterval
    /\ pollTrigger = NoTrigger
    /\ svcCall = NoSvcCall

\* The methods of the service are called by one thread (the application that
\* owns the service), so a call begins when no other call is in progress;
\* the scheduler's thread and the executor's threads run beside it.

SvcNext ==
    \/ Start
    \/ StopBegin
    \/ StopShutdown
    \/ StopEnd
    \/ StopFails
    \/ StopStopped
    \/ TriggerImmediatePoll
    \/ TriggerImmediatePurge
    \/ SvcReturn
    \/ TriggerFires
    \/ ProcessJobs
    \/ PollSamplesPhase
    \/ PollStatusPhase
    \/ PurgeJob
    \/ JobListener

(***************************************************************************)
(* The store's operations as steps.  Each call runs in its own session and *)
(* transaction (get_db_session_context), so a call is one step; its result *)
(* stays in lastCall until the caller goes on.                             *)
(***************************************************************************)
NoCall ==
    [op |-> "none", exc |-> NoExc, new |-> 0, dup |-> 0, repeat |-> FALSE,
     m |-> 0, success |-> FALSE, deleted |-> 0, cutoff |-> 0, months |-> 0, at |-> "none",
     payload |-> NoPayload, fault |-> "none", snapshot |-> NoSnapshot]

Idle == lastCall = NoCall

\* the sensor-name lookup of the first pass, as far as the client's token shows it
NamesLookup(keys, fault) ==
    IF fault # "query" /\ NewSensorIds(sensors, keys) # {}
    THEN \E s \in LookupScripts :
             \E st \in {SensorNamesToken(ApiToken, clock, s, TRUE)} : SetToken(st)
    ELSE UNCHANGED <<accessToken, tokenExpiresAt>>

SamplesCall(p, fault, again) ==
    LET r == ProcessSamples(readings, sensors, p, fault) IN
    /\ readings' = r.readings
    /\ sensors' = r.sensors
    /\ lastCall' = [NoCall EXCEPT !.op = "samples", !.exc = r.exc, !.new = r.new,
                                  !.dup = r.dup, !.repeat = again,
                                  !.payload = p, !.fault = fault]
    /\ NamesLookup(SamplesKeys(p), fault)
    /\ UNCHANGED <<today, ticks, clock, clockTicks, apiCall, svcVars, cfgVars, appVars>>

\* the poll job's samples phase with the payload the API returns
IngestSamples ==
    /\ Idle /\ replay = NoPayload
    /\ \E p \in SamplesPayloads, fault \in StorageFaults :
          /\ SamplesCall(p, fault, FALSE)
          /\ replay' \in IF lastCall'.exc = NoExc THEN {NoPayload, p} ELSE {NoPayload}

\* the next poll: the API returns the window it returned before
ReingestSamples ==
    /\ Idle /\ replay # NoPayload
    /\ \E fault \in StorageFaults : SamplesCall(replay, fault, TRUE)
    /\ replay' = NoPayload

\* the poll job's status phase
IngestStatus ==
    /\ Idle /\ replay = NoPayload
    /\ \E sp \in StatusPayloads, fault \in StorageFaults :
          LET r == ProcessStatus(readings, sensors, sp, fault) IN
          /\ readings' = r.readings
          /\ sensors' = r.sensors
          /\ lastCall' = [NoCall EXCEPT !.op = "status", !.exc = r.exc, !.new = r.new,
                                        !.dup = r.dup, !.fault = fault, !.snapshot = sp]
          /\ NamesLookup(StatusKeys(sp), fault)
    /\ UNCHANGED <<today, ticks, replay, clock, clockTicks, apiCall, svcVars, cfgVars, appVars>>

\* the purge job's call, or the CLI's, under a configured retention
Purge ==
    /\ Idle /\ replay = NoPayload
    /\ \E m \in Retentions, fault \in PurgeFaults :
          LET r == PurgeOldReadings(readings, today, m, fault) IN
          /\ readings' = r.readings
          /\ lastCall' = [NoCall EXCEPT !.op = "purge", !.exc = r.raised, !.m = m,
                                        !.success = r.success, !.deleted = r.deleted,
                                        !.cutoff = r.cutoff, !.months = r.months,
                                        !.at = r.at]
    /\ UNCHANGED <<sensors, today, ticks, replay, apiVars, svcVars, cfgVars, appVars>>

\* the caller takes the result and goes on
Return ==
    /\ ~Idle
    /\ lastCall' = NoCall
    /\ UNCHANGED <<readings, sensors, today, ticks, replay, apiVars, svcVars, cfgVars, appVars>>

\* time passes
Tick ==
    /\ Idle /\ replay = NoPayload
    /\ ticks < MaxTicks
    /\ today' = today + TickDays
    /\ ticks' = ticks + 1
    /\ UNCHANGED <<readings, sensors, lastCall, replay, apiVars, svcVars, cfgVars, appVars>>

StoreInit ==
    /\ readings = EmptyTable
    /\ sensors = [s \in Sensors |-> "absent"]
    /\ today = Day0
    /\ ticks = 0
    /\ lastCall = NoCall
    /\ replay = NoPayload

(***************************************************************************)
(* The application around the service (app.py, gunicorn_config.py): the    *)
(* service of the model is app.polling_service; the second service that    *)
(* post_fork starts is kept as a flag.                                     *)
(***************************************************************************)
MaxRequests == 2                  \* application contexts ended in one behaviour

\* the row 'polling_interval_minutes' of the Settings Store
StoredRow(k, v) == [k |-> k, v |-> v]
StoredIntervals ==
    {StoredRow("absent", 0), StoredRow("nan", 0)}
        \cup {StoredRow("int", v) : v \in {0 - 1, 0, 1, 2}}

\* SettingsManager.get_polling_interval: int() of the stored string, 1 when
\* the row is absent or int() raises ValueError
GetPollingInterval(row) == IF row.k = "int" THEN row.v ELSE DefaultInterval

\* create_app(start_polling_service=True), lines 89-112: the service is
\* constructed and started, and an immediate poll triggered; a start() that
\* raises leaves app.polling_service None
AppStarts(op, row, missing, auth) ==
    LET interval == GetPollingInterval(row)
        r == AddJobs(StartService(FALSE, missing, auth), interval)
    IN  /\ SetToken(IF r.authCalled THEN auth.st ELSE ApiToken)
        /\ pollingInterval' = interval
        /\ isRunning' = r.started
        /\ schedRunning' = r.started
        /\ jobs' = IF r.started THEN JobIds ELSE {}
        /\ pollTrigger' = IF r.started THEN interval ELSE NoTrigger
        /\ due' = IF r.started THEN {"poll"} ELSE {}
        /\ triggered' = IF r.started THEN {"poll"} ELSE {}
        /\ svcCall' = [NoSvcCall EXCEPT !.op = op, !.exc = r.exc, !.ret = r.started,
                                        !.missing = missing, !.minutes = interval,
                                        !.authExc = IF r.authCalled THEN auth.exc ELSE NoExc,
                                        !.authRet = r.authCalled /\ auth.ret]

\* the application created to serve requests: app = create_app()
CreateApp ==
    /\ SvcIdle /\ appCreated = "none"
    /\ \E row \in StoredIntervals, missing \in BOOLEAN :
       \E auth \in StartAuthCalls(FALSE, missing, ApiToken, clock) :
          AppStarts("create_app", row, missing, auth)
    /\ appCreated' = "served"
    /\ UNCHANGED <<workerRunning, handled, authVars, stopping, execs, counters, lastTime,
                   clock, clockTicks, apiCall, storeVars>>

\* gunicorn_config.post_fork: temp_app = create_app(config_class=...), which
\* starts a service of its own, then create_polling_service(...).start()
PostFork ==
    /\ SvcIdle /\ appCreated = "none"
    /\ \E row \in StoredIntervals, missing \in BOOLEAN, second \in BOOLEAN :
       \E auth \in StartAuthCalls(FALSE, missing, ApiToken, clock) :
          /\ AppStarts("post_fork", row, missing, auth)
          /\ workerRunning' = (second /\ ~missing)
    /\ appCreated' = "temp"
    /\ UNCHANGED <<handled, authVars, stopping, execs, counters, lastTime,
                   clock, clockTicks, apiCall, storeVars>>

\* a request of the served application has been handled and its application
\* context ends: the teardown_appcontext handler cleanup_polling_service
\* (lines 115-120) calls stop() when is_running()
CleanupPollingService ==
    /\ SvcIdle /\ stopping = "no"
    /\ appCreated = "served"
    /\ handled < MaxRequests
    /\ handled' = handled + 1
    /\ IF isRunning /\ schedRunning
       THEN /\ jobs' = {}
            /\ due' = {}
            /\ triggered' = {}
            /\ pollTrigger' = NoTrigger
            /\ stopping' = "removed"
       ELSE UNCHANGED <<jobs, due, triggered, pollTrigger, stopping>>
    /\ UNCHANGED <<appCreated, workerRunning, authVars, isRunning, schedRunning, execs,
                   counters, lastTime, svcCall, pollingInterval, apiVars, storeVars>>

(***************************************************************************)
(* AuthManager (auth.py): the manager PIN, the login attempts kept by IP   *)
(* address and the lockout computed from them.                             *)
(***************************************************************************)
Ips == {"10.0.0.1", "10.0.0.2"}
Pins == {"000000", "123456"}
NoPin == <<"none">>

MaxLoginAttempts == 2             \* MAX_LOGIN_ATTEMPTS of the environment
HourTicks == 2                    \* timedelta(hours=1), in ticks of authClock
MaxAuthTicks == 3                 \* ticks of authClock in one behaviour
MaxLoginRows == 4                 \* rows of login_attempts in one behaviour

\* hash_pin: the bcrypt hash of a PIN
HashPin(pin) == <<"bcrypt", pin>>

\* verify_pin: bcrypt.checkpw of the PIN against the stored hash
VerifyPin(pin, hashed) == hashed = HashPin(pin)

\* _get_recent_failed_attempts: rows of the address with success False and
\* timestamp >= now - 1 hour
GetRecentFailedAttempts(rows, ip, now) ==
    Cardinality({i \in 1..Len(rows[ip]) :
                    ~rows[ip][i].success /\ rows[ip][i].at >= now - HourTicks})

AuthFaults == {"none", "lock_check", "session"}

\* _is_account_locked: the count against max_attempts; except Exception
\* around the query gives False
IsAccountLocked(rows, ip, now, fault) ==
    IF fault = "lock_check" THEN FALSE
    ELSE GetRecentFailedAttempts(rows, ip, now) >= MaxLoginAttempts

\* _record_login_attempt: a row with the address, the outcome and now
RecordLoginAttempt(rows, ip, success, now) ==
    [rows EXCEPT ![ip] = Append(@, [success |-> success, at |-> now])]

\* _clear_failed_attempts: pass
ClearFailedAttempts(rows, ip) == rows

LoginRows(rows) == Len(rows["10.0.0.1"]) + Len(rows["10.0.0.2"])

NoAuthCall ==
    [op |-> "none", ip |-> "none", pin |-> "none", ret |-> FALSE, exc |-> NoExc,
     fault |-> "none", created |-> FALSE, recent |-> 0, after |-> 0]

\* setup_initial_pin: the row of manager_auth created unless there is one
SetupInitialPin ==
    /\ \E pin \in {"000000"} :
          /\ pinHash' = IF pinHash = NoPin THEN HashPin(pin) ELSE pinHash
          /\ authCall' = [NoAuthCall EXCEPT !.op = "setup_initial_pin", !.pin = pin,
                                             !.ret = (pinHash = NoPin)]
    /\ UNCHANGED <<loginAttempts, sessionsCreated, authClock, appCreated, workerRunning,
                   handled, svcVars, cfgVars, apiVars, storeVars>>

\* AuthManager.authenticate(pin, ip_address), lines 129-181: the rows of
\* login_attempts it leaves, whether it created a session, what it returned
\* and what it raised
AuthenticateResult(rows, hashed, ip, pin, now, fault) ==
    LET failed == RecordLoginAttempt(rows, ip, FALSE, now) IN
    IF IsAccountLocked(rows, ip, now, fault)
    THEN [rows |-> rows, created |-> FALSE, ret |-> FALSE, exc |-> "AccountLockoutError"]
    ELSE IF fault = "session"
    THEN [rows |-> rows, created |-> FALSE, ret |-> FALSE, exc |-> NoExc]
    ELSE IF hashed = NoPin
    THEN [rows |-> failed, created |-> FALSE, ret |-> FALSE, exc |-> NoExc]
    ELSE IF VerifyPin(pin, hashed)
    THEN [rows |-> ClearFailedAttempts(RecordLoginAttempt(rows, ip, TRUE, now), ip),
          created |-> TRUE, ret |-> TRUE, exc |-> NoExc]
    ELSE [rows |-> failed, created |-> FALSE, ret |-> FALSE,
          exc |-> IF GetRecentFailedAttempts(failed, ip, now) >= MaxLoginAttempts
                  THEN "AccountLockoutError" ELSE NoExc]

\* a login request: authenticate(pin, ip_address) called with the address of
\* the request
AuthManagerAuthenticate ==
    /\ LoginRows(loginAttempts) < MaxLoginRows
    /\ \E ip \in Ips, pin \in Pins, fault \in AuthFaults :
       \E r \in {AuthenticateResult(loginAttempts, pinHash, ip, pin, authClock, fault)} :
          /\ loginAttempts' = r.rows
          /\ sessionsCreated' = [sessionsCreated EXCEPT ![ip] = IF r.created THEN @ + 1 ELSE @]
          /\ authCall' =
                [op |-> "authenticate", ip |-> ip, pin |-> pin, ret |-> r.ret, exc |-> r.exc,
                 fault |-> fault, created |-> r.created,
                 recent |-> GetRecentFailedAttempts(loginAttempts, ip, authClock),
                 after |-> GetRecentFailedAttempts(r.rows, ip, authClock)]
    /\ UNCHANGED <<pinHash, authClock, appCreated, workerRunning, handled, svcVars, cfgVars,
                   apiVars, storeVars>>

\* time passes between two requests
AuthTick ==
    /\ authClock < MaxAuthTicks
    /\ authClock' = authClock + 1
    /\ UNCHANGED <<pinHash, loginAttempts, sessionsCreated, authCall, appCreated,
                   workerRunning, handled, svcVars, cfgVars, apiVars, storeVars>>

AuthNext ==
    \/ SetupInitialPin
    \/ AuthManagerAuthenticate
    \/ AuthTick

\* the tables before the first start of the application
AuthInit ==
    /\ pinHash = NoPin
    /\ loginAttempts = [ip \in Ips |-> <<>>]
    /\ sessionsCreated = [ip \in Ips |-> 0]
    /\ authClock = 0
    /\ authCall = NoAuthCall

\* the process before create_app
AppInit ==
    /\ appCreated = "none"
    /\ workerRunning = FALSE
    /\ handled = 0
    /\ AuthInit

Init == StoreInit /\ ApiInit /\ SvcInit /\ AppInit

Next ==
    \/ IngestSamples
    \/ ReingestSamples
    \/ IngestStatus
    \/ Purge
    \/ Return

\* the client after the authenticate() of start(), within the token's life
ApiAuthenticated ==
    /\ accessToken = TRUE
    /\ tokenExpiresAt = DefaultExpiresIn
    /\ clock = 0
    /\ clockTicks = 0
    /\ apiCall = NoApiCall

PolledInit == StoreInit /\ ApiAuthenticated /\ SvcInit /\ AppInit

\* ingestion and purge in any order, from the empty store
Spec == PolledInit /\ [][Next]_vars

\* stores that earlier polls have filled: the first sensor holds any of the
\* ages once, the second a recent reading and up to two rows of an old one
SeedTables ==
    {tbl \in [Sensors \X Stamps -> 0..2] :
        /\ \A t \in Stamps : tbl[<<"S1", t>>] <= 1
        /\ \A t \in Stamps \ {Day0 - 200, Day0 - 1} : tbl[<<"S2", t>>] = 0
        /\ tbl[<<"S2", Day0 - 1>>] <= 1}

PurgeInit ==
    /\ readings \in SeedTables
    /\ sensors = [s \in Sensors |-> "active"]
    /\ today = Day0
    /\ ticks = 0
    /\ lastCall = NoCall
    /\ replay = NoPayload
    /\ ApiAuthenticated
    /\ SvcInit
    /\ AppInit

PurgeNext ==
    \/ Purge
    \/ Return
    \/ Tick

\* the retention engine over a filled store, as time passes
SpecPurge == PurgeInit /\ [][PurgeNext]_vars

\* the API client on its own, against any server
SpecApi == Init /\ [][ApiNext]_vars

\* the polling service with its scheduler, its client and its store
SpecSvc == Init /\ [][SvcNext]_vars

CfgNext ==
    \/ Start
    \/ StopBegin
    \/ StopShutdown
    \/ StopEnd
    \/ UpdatePollingInterval
    \/ SvcReturn
    \/ TriggerFires
    \/ ProcessJobs
    \/ PollSamplesPhase
    \/ PollStatusPhase
    \/ PurgeJob
    \/ JobListener

AppNext ==
    \/ CreateApp
    \/ PostFork
    \/ CleanupPollingService
    \/ StopBegin
    \/ StopShutdown
    \/ StopEnd
    \/ StopFails
    \/ SvcReturn

\* the application process: start-up, requests and shutdown
SpecApp == Init /\ [][AppNext]_vars

\* manager logins from two addresses as time passes
SpecAuth == Init /\ [][AuthNext]_vars

\* the polling service while its polling interval is being changed
SpecCfg == Init /\ [][CfgNext]_vars

(***************************************************************************)
(* Properties of the store.                                                *)
(***************************************************************************)
Cells == Sensors \X Stamps

TotalRows(tbl) == CountRows(tbl, Cells)

\* C1: no two Reading rows have the same (sensor_id, timestamp) pair, in any
\* state reached by processSamples, processStatus and purge runs.
C1_UniquePairs == \A c \in Cells : readings[c] <= 1

\* entries of a payload that are complete, parse, and carry numbers
WellFormed(e) == e.shape = "dict" /\ e.observed.k = "iso" /\ e.temperature = "num"

\* entries of a payload whose reading is in the table
Stored(tbl, sid, e) ==
    /\ e.shape = "dict" /\ e.observed.k = "iso" /\ e.temperature # "none"
    /\ tbl[<<sid, e.observed.t>>] > 0

CountEntries(p, Test(_, _)) ==
    LET RECURSIVE Items(_, _, _)
        Items(sid, q, i) == IF i > Len(q) THEN 0
                            ELSE (IF Test(sid, q[i]) THEN 1 ELSE 0) + Items(sid, q, i + 1)
        RECURSIVE Keys(_)
        Keys(k) == IF k > Len(SensorOrder) THEN 0
                   ELSE Items(SensorOrder[k], p[SensorOrder[k]].items, 1) + Keys(k + 1)
    IN Keys(1)

ReingestStep == Idle /\ replay # NoPayload /\ lastCall'.op = "samples"

PurgeStep == Idle /\ lastCall'.op = "purge"

\* C4: for every configured retention m the purge works with max(m, 6) months
\* and removes no reading that is less than 6 x 30 days old at the purge.
C4_RetentionFloor ==
    [][PurgeStep =>
          /\ lastCall'.months = (IF lastCall'.m >= 6 THEN lastCall'.m ELSE 6)
          /\ \A c \in Cells : c[2] > today - 6 * 30 => readings'[c] = readings[c]]_vars

\* a purge configured below the floor has removed rows and kept others
C4_Witness ==
    /\ lastCall.op = "purge" /\ lastCall.m <= 0 /\ lastCall.success
    /\ lastCall.deleted > 0
    /\ \E c \in Cells : readings[c] > 0 /\ c[2] < today

C10_ExactPurge ==
    [][(PurgeStep /\ lastCall'.success) =>
          LET months == IF lastCall'.m >= 6 THEN lastCall'.m ELSE 6
              cutoff == today - months * 30
          IN /\ \A c \in Cells : readings'[c] = (IF c[2] < cutoff THEN 0 ELSE readings[c])
             /\ lastCall'.deleted = TotalRows(readings) - TotalRows(readings')]_vars

\* retention 3, readings aged 1, 40, 200 and 400 days: the two old ones are gone
C10_Witness ==
    /\ lastCall.op = "purge" /\ lastCall.m = 3 /\ lastCall.success /\ ticks = 0
    /\ lastCall.deleted = 2
    /\ \A t \in Stamps : readings[<<"S1", t>>] = (IF t \in {Day0 - 1, Day0 - 40} THEN 1 ELSE 0)
    /\ \A t \in Stamps : readings[<<"S2", t>>] = 0

(***************************************************************************)
(* Properties of the API client.                                           *)
(***************************************************************************)
ClientCalls == {"request", "samples", "status"}

\* the contacts of the data endpoint in a call's trace, in order
DataContacts(tr) == SelectSeq(tr, LAMBDA e : e.ev = "data")

\* the position of the first contact of the data endpoint
FirstData(tr) == CHOOSE i \in 1..Len(tr) : tr[i].ev = "data" /\ \A j \in 1..(i - 1) : tr[j].ev # "data"

\* C3: make_authenticated_request retries once on a 401: the data endpoint is
\* contacted at most twice in a call, a second time only after a 401; after
\* the first 401 the token is cleared and authenticate() runs, and unless
\* that authentication fails the request is sent again; a re-sent request
\* answered 200 makes the call return, one answered 401 makes it raise
\* TokenExpiredError.
C3_RetryOnce ==
    apiCall.op \in ClientCalls =>
        LET tr == apiCall.trace
            ds == DataContacts(tr)
        IN  /\ Len(ds) <= 2
            /\ Len(ds) = 2 => ds[1].status = 401
            /\ (Len(ds) >= 1 /\ ds[1].status = 401) =>
                  /\ Len(tr) >= FirstData(tr) + 2
                  /\ tr[FirstData(tr) + 1] = ClearEv
                  /\ tr[FirstData(tr) + 2].ev = "authorize"
                  /\ \/ Len(ds) = 2
                     \/ /\ apiCall.exc \in {"AuthenticationError", "APIConnectionError"}
                        /\ tr[Len(tr)].ev \in {"authorize", "accesstoken"}
            /\ (Len(ds) = 2 /\ ds[2].status = 200) =>
                  /\ apiCall.exc \in {NoExc, "SensorPushAPIError"}
                  /\ apiCall.op = "request" => apiCall.exc = NoExc /\ apiCall.ret
            /\ (Len(ds) = 2 /\ ds[2].status = 401) =>
                  /\ apiCall.exc = "TokenExpiredError"
                  /\ ~accessToken

\* a call that met a 401, authenticated again, sent the request again and
\* returned the 200 answer
C3_Witness ==
    /\ apiCall.op = "request"
    /\ apiCall.exc = NoExc /\ apiCall.ret
    /\ Len(DataContacts(apiCall.trace)) = 2
    /\ DataContacts(apiCall.trace)[1].status = 401
    /\ DataContacts(apiCall.trace)[2].status = 200
    /\ accessToken

\* C8: an answer of the data endpoint with a status that is neither 2xx nor
\* 401 reaches the caller of get_samples / get_status as a SensorPushAPIError
\* with the message of that status, and a call that ends at the data endpoint
\* raises APIConnectionError only when the request failed at network level.
C8_StatusSpecificErrors ==
    apiCall.op \in {"samples", "status"} =>
        LET tr == apiCall.trace
            ds == DataContacts(tr)
            last == ds[Len(ds)]
            name == IF apiCall.op = "samples" THEN "Samples" ELSE "Status"
        IN  /\ (Len(ds) > 0 /\ last.net = NoExc /\ last.status >= 300 /\ last.status # 401) =>
                  /\ apiCall.exc = "SensorPushAPIError"
                  /\ last.status = 400 => apiCall.msg = "Bad request - check your parameters"
                  /\ last.status = 403 => apiCall.msg = "Forbidden - insufficient permissions"
                  /\ last.status = 404 => apiCall.msg = name \o " endpoint not found"
                  /\ last.status >= 500 => apiCall.msg = "Server error - please try again later"
            /\ (apiCall.exc = "APIConnectionError" /\ Len(tr) > 0 /\ tr[Len(tr)].ev = "data") =>
                  last.net # NoExc

(***************************************************************************)
(* Properties of the polling service.                                      *)
(***************************************************************************)
\* C5: of each job at most one execution is in progress at any time, and a
\* firing (of the trigger or of a manual trigger) handled while an execution
\* of the job is in progress starts nothing: it is skipped.
C5_SingleInFlight ==
    [][/\ \A j \in JobIds : Len(execs'[j]) <= 1
       /\ \A j \in JobIds :
             (j \in due /\ j \notin due' /\ jobs' = jobs /\ execs[j] # <<>>)
                 => (execs' = execs /\ svcCall'.op = "max_instances" /\ svcCall'.job = j)]_vars

\* a firing of the poll job has just been skipped while the execution in
\* progress goes on
C5_Witness ==
    /\ svcCall.op = "max_instances" /\ svcCall.job = "poll"
    /\ Len(execs["poll"]) = 1
    /\ execs["poll"][1].pc \in {"samples", "status"}
    /\ isRunning /\ schedRunning

AuthOrConnection(e) == IsA(e, "AuthenticationError") \/ IsA(e, "APIConnectionError")

\* C6: a poll execution in which get_samples or get_status raised an
\* AuthenticationError or an APIConnectionError ends with no exception
\* leaving the job body; the listener gets an event without exception and
\* counts the run as successful, and the service and its jobs stay as they are.
C6_TransientErrorsSwallowed ==
    [][/\ \A i \in 1..Len(execs'["poll"]) :
             LET x == execs'["poll"][i] IN
             (x.pc = "done" /\ (AuthOrConnection(x.getSamples) \/ AuthOrConnection(x.getStatus)))
                 => x.raised = NoExc
       /\ (/\ svcCall.op = "none" /\ svcCall'.op = "listener" /\ svcCall'.job = "poll"
           /\ \/ AuthOrConnection(svcCall'.exec.getSamples)
              \/ AuthOrConnection(svcCall'.exec.getStatus))
             => /\ svcCall'.exc = NoExc
                /\ counters'["poll"] = [counters["poll"] EXCEPT !.ok = @ + 1]
                /\ counters'["purge"] = counters["purge"]
                /\ UNCHANGED <<isRunning, schedRunning, jobs>>]_vars

\* the listener has counted as successful a poll whose get_samples raised
\* AuthenticationError, and the service is running
C6_Witness ==
    /\ svcCall.op = "listener" /\ svcCall.job = "poll"
    /\ svcCall.exec.getSamples = "AuthenticationError"
    /\ svcCall.exc = NoExc
    /\ counters["poll"] = [ok |-> 1, failed |-> 0]
    /\ isRunning /\ schedRunning /\ jobs = JobIds

\* C7: a start() of a stopped service that finds configuration missing, or
\* whose authenticate() raises or returns false, raises PollingServiceError
\* and leaves the service stopped: _is_running false, the scheduler not
\* running, no job registered.
C7_FailedStartStaysStopped ==
    [][(/\ svcCall.op = "none" /\ svcCall'.op = "start"
        /\ ~isRunning
        /\ svcCall'.missing \/ svcCall'.authExc # NoExc \/ ~svcCall'.authRet)
          => /\ svcCall'.exc = "PollingServiceError"
             /\ ~isRunning' /\ ~schedRunning'
             /\ jobs' = {} /\ due' = {}
             /\ UNCHANGED <<schedRunning, jobs, execs>>]_vars

\* start() has failed on an authenticate() that raised APIConnectionError
C7_Witness ==
    /\ svcCall.op = "start"
    /\ svcCall.exc = "PollingServiceError"
    /\ ~svcCall.missing /\ svcCall.authExc = "APIConnectionError"
    /\ ~isRunning /\ ~schedRunning /\ jobs = {}

(***************************************************************************)
(* Properties of the poll job and the purge job.                           *)
(***************************************************************************)
\* the executions of the poll job that have run their body to its end
PollExecs == {execs["poll"][i] : i \in 1..Len(execs["poll"])}

Called(x, phase) == \E k \in 1..Len(x.calls) : x.calls[k] = phase

\* C11: in every poll job execution in which getSamples returns a payload and
\* processSamples then fails, getStatus is still called, and processStatus
\* runs on the payload getStatus returns.
C11_StatusAfterProcessingFailure ==
    \A x \in PollExecs :
        (x.pc = "done" /\ Called(x, "processSamples") /\ x.processSamples # NoExc) =>
            /\ x.getSamples = NoExc
            /\ Called(x, "getStatus")
            /\ x.getStatus = NoExc => Called(x, "processStatus")

\* the commit of the samples failed and the status snapshot was processed
C11_Witness ==
    \E x \in PollExecs :
        /\ x.pc = "done" /\ x.processSamples = "SQLAlchemyError"
        /\ x.calls = <<"getSamples", "processSamples", "getStatus", "processStatus">>
        /\ x.processStatus = NoExc /\ x.raised = NoExc

PhaseErrors(x) == {x.getSamples, x.processSamples, x.getStatus, x.processStatus} \ {NoExc}

Unexpected(e) == e # NoExc /\ ~AuthOrConnection(e)

RaisedBySamplesFetch(x) == IF Unexpected(x.getSamples) THEN x.getSamples ELSE NoExc

C14_ServerErrorFailsRun ==
    \A x \in PollExecs :
        (x.pc = "done" /\ x.samplesHttp = 500) => IsA(x.raised, "SensorPushAPIError")

\* C15: a TokenExpiredError from a data call (a second 401) is handled by the
\* poll job as an authentication error: nothing is raised out of the job body
\* and the scheduler keeps the poll job for the next cycle.
C15_TokenExpiredIsTransient ==
    \A x \in PollExecs :
        (x.pc = "done" /\ "TokenExpiredError" \in PhaseErrors(x)) =>
            /\ x.raised = NoExc
            /\ (schedRunning => "poll" \in jobs)

\* the listener handles the end of an execution of job j
ListenerStep(j) == SvcIdle /\ svcCall'.op = "listener" /\ svcCall'.job = j

\* C16: a purge job execution whose purgeOldReadings reports success = false
\* raises out of the job body and the listener increments failed_purges only;
\* one whose purge reports success = true increments successful_purges only.
C16_PurgeFailureCounted ==
    [][ListenerStep("purge") =>
          LET x == svcCall'.exec
              c == counters["purge"]
          IN /\ x.purge = "failure" =>
                   /\ x.raised = "DataRetentionError"
                   /\ counters'["purge"] = [ok |-> c.ok, failed |-> c.failed + 1]
             /\ x.purge = "success" =>
                   /\ x.raised = NoExc
                   /\ counters'["purge"] = [ok |-> c.ok + 1, failed |-> c.failed]]_vars

\* a purge that reported a failure has been counted in failed_purges
C16_Witness ==
    /\ svcCall.op = "listener" /\ svcCall.job = "purge"
    /\ svcCall.exec.purge = "failure"
    /\ counters["purge"] = [ok |-> 0, failed |-> 1]

OtherJob(j) == IF j = "poll" THEN "purge" ELSE "poll"

\* C17: every completed execution of a job increases exactly one of the job's
\* two counters by one, failed if and only if the job body raised; the other
\* job's counters are unchanged, counters never decrease, they change at no
\* other step, and the reported totals are successful + failed.
C17_CountersFollowExecutions ==
    [][/\ \A j \in JobIds :
             /\ counters'[j].ok >= counters[j].ok
             /\ counters'[j].failed >= counters[j].failed
             /\ Len(execs'[j]) < Len(execs[j]) => ListenerStep(j)
             /\ counters'[j] # counters[j] => ListenerStep(j)
             /\ ListenerStep(j) =>
                   /\ Len(execs'[j]) = Len(execs[j]) - 1
                   /\ counters'[j] =
                         IF svcCall'.exec.raised # NoExc
                         THEN [ok |-> counters[j].ok, failed |-> counters[j].failed + 1]
                         ELSE [ok |-> counters[j].ok + 1, failed |-> counters[j].failed]
                   /\ counters'[OtherJob(j)] = counters[OtherJob(j)]
       /\ With(ServiceStatus', LAMBDA snap :
               /\ snap.total_polls = snap.successful_polls + snap.failed_polls
               /\ snap.total_purges = snap.successful_purges + snap.failed_purges
               /\ snap.successful_polls = counters'["poll"].ok
               /\ snap.failed_polls = counters'["poll"].failed
               /\ snap.successful_purges = counters'["purge"].ok
               /\ snap.failed_purges = counters'["purge"].failed)]_vars

\* a failed poll and a successful purge have each been counted once
C17_Witness ==
    /\ svcCall.op = "listener"
    /\ counters["poll"] = [ok |-> 0, failed |-> 1]
    /\ counters["purge"] = [ok |-> 1, failed |-> 0]
    /\ ServiceStatus.total_polls = 1 /\ ServiceStatus.total_purges = 1

\* an execution of job j begins to run its body
BodyStarts(j) ==
    /\ Len(execs'[j]) = Len(execs[j])
    /\ \E i \in 1..Len(execs[j]) :
          execs[j][i].pc = FirstPc(j) /\ execs'[j][i].pc # FirstPc(j)

\* executions of job j whose body has begun: the counted ones and the ones in
\* progress
Begun(j) ==
    counters[j].ok + counters[j].failed
        + Cardinality({i \in 1..Len(execs[j]) : execs[j][i].pc # FirstPc(j)})

\* C18 as stated: the last poll and last purge timestamps shown by getStatus()
\* change only when an execution of that job completes, in the same step as
\* the counter increment.
C18_TimestampsSetAtCompletion ==
    [][/\ ServiceStatus'.last_poll_time # ServiceStatus.last_poll_time =>
             ListenerStep("poll") /\ counters'["poll"] # counters["poll"]
       /\ ServiceStatus'.last_purge_time # ServiceStatus.last_purge_time =>
             ListenerStep("purge") /\ counters'["purge"] # counters["purge"]]_vars

\* C18 amended: the last poll and last purge timestamps shown by getStatus()
\* are start timestamps written by the job body: each changes exactly in the
\* step in which an execution of that job begins to run, with the counters
\* unchanged; the listener leaves them alone; so the timestamp shown is that
\* of the latest execution begun, counted or still in progress.
C18_TimestampsSetAtStart ==
    [][\A j \in JobIds :
          /\ lastTime'[j] # lastTime[j] <=> BodyStarts(j)
          /\ BodyStarts(j) => lastTime'[j] > lastTime[j] /\ counters' = counters
          /\ ListenerStep(j) => lastTime' = lastTime
          /\ lastTime'[j] = NoTime <=> Begun(j)' = 0
          /\ With(ServiceStatus', LAMBDA snap :
                  /\ snap.last_poll_time = lastTime'["poll"]
                  /\ snap.last_purge_time = lastTime'["purge"])]_vars

\* a poll is in progress and not yet counted; the snapshot shows its start
C18_Witness ==
    /\ Len(execs["poll"]) = 1 /\ execs["poll"][1].pc = "status"
    /\ counters["poll"] = [ok |-> 0, failed |-> 0]
    /\ ServiceStatus.last_poll_time # NoTime

(***************************************************************************)
(* Properties of one processSamples call.                                  *)
(***************************************************************************)
SamplesStep == Idle /\ lastCall'.op = "samples"

\* C19: when a storage-level failure occurs in a processSamples call (at a
\* query, or at the commit that flushes the inserts), the error propagates and
\* none of the Sensor or Reading rows added by the call is persisted; when the
\* call returns normally, all of its inserts are in the store.
C19_AllOrNothing ==
    [][SamplesStep =>
          LET p == lastCall'.payload
              fault == lastCall'.fault
          IN /\ (fault = "query" /\ HasKeys(p)) => lastCall'.exc = "SQLAlchemyError"
             /\ fault = "commit" => lastCall'.exc # NoExc
             /\ lastCall'.exc # NoExc => readings' = readings /\ sensors' = sensors
             /\ lastCall'.exc = NoExc =>
                   /\ TotalRows(readings') = TotalRows(readings) + lastCall'.new
                   /\ \A c \in Cells : readings'[c] >= readings[c]
                   /\ \A s \in Sensors :
                         /\ p[s].kind = "list" => sensors'[s] # "absent"
                         /\ sensors'[s] # sensors[s] =>
                               sensors[s] = "absent" /\ p[s].kind = "list"]_vars

\* the commit failed for a payload with a reading of a sensor not seen before,
\* and neither the sensor nor the reading is in the store
C19_Witness ==
    /\ lastCall.op = "samples" /\ lastCall.fault = "commit"
    /\ lastCall.exc = "SQLAlchemyError"
    /\ lastCall.payload["S1"].kind = "list"
    /\ CountEntries(lastCall.payload, LAMBDA sid, e : WellFormed(e)) > 0
    /\ TotalRows(readings) = 0
    /\ sensors["S1"] = "absent"

\* C20: in a processSamples call without a storage failure a malformed entry
\* is skipped, and every well-formed entry of the same payload has its
\* reading in the store when the call ends.
C20_MalformedEntriesSkipped ==
    [][(SamplesStep /\ lastCall'.fault = "none") =>
          /\ lastCall'.exc = NoExc
          /\ \A sid \in Sensors :
                LET v == lastCall'.payload[sid] IN
                v.kind = "list" =>
                    \A k \in 1..Len(v.items) :
                        WellFormed(v.items[k]) =>
                            readings'[<<sid, v.items[k].observed.t>>] > 0]_vars

(***************************************************************************)
(* Properties of one processStatus call.                                   *)
(***************************************************************************)
StatusStep == Idle /\ lastCall'.op = "status"

\* C21: in a processStatus call without a storage failure, an error raised
\* while handling one sensor's entry (a status field that is not a string, a
\* temperature that is not numeric) does not end the call, and every other
\* sensor of the payload is processed and its changes committed.
C21_StatusErrorsPerSensor ==
    [][(/\ StatusStep
        /\ lastCall'.fault = "none"
        /\ \A s \in Sensors : lastCall'.snapshot.sensors[s].shape \in {"dict", "absent"}) =>
          /\ lastCall'.exc = NoExc
          /\ \A s \in Sensors :
                LET e == lastCall'.snapshot.sensors[s] IN
                (e.shape = "dict" /\ e.status # "nonstr") =>
                    sensors'[s] = (IF e.status = "active" THEN "active" ELSE "inactive")]_vars

(***************************************************************************)
(* Properties of the phases of a poll execution.                           *)
(***************************************************************************)
\* execution i of the poll job ends its status phase in this step
StatusPhaseEnds(i) ==
    /\ Len(execs'["poll"]) = Len(execs["poll"])
    /\ execs["poll"][i].pc = "status"
    /\ execs'["poll"][i].pc = "done"

\* C22: a processStatus that fails leaves the store as it found it, with the
\* readings processSamples committed earlier in the same execution, and
\* nothing is raised out of the poll job.
C22_CommittedSamplesPersist ==
    [][\A i \in 1..Len(execs["poll"]) :
          (StatusPhaseEnds(i) /\ execs'["poll"][i].processStatus # NoExc) =>
              /\ readings' = readings
              /\ sensors' = sensors
              /\ execs'["poll"][i].raised = NoExc]_vars

\* the samples of the cycle are in the store, processStatus failed at its
\* commit and the execution raised nothing
C22_Witness ==
    \E x \in PollExecs :
        /\ x.pc = "done" /\ x.processSamples = NoExc
        /\ x.processStatus = "SQLAlchemyError" /\ x.raised = NoExc
        /\ readings[<<"S1", Day0 - 1>>] > 0
        /\ sensors["S1"] = "active"

SamplesCalls == {"getSamples", "processSamples"}

StatusCalls == {"getStatus", "processStatus"}

\* C23: in every poll execution the calls made so far begin with getSamples,
\* every call of the status phase comes after every call of the samples
\* phase, and the status phase is entered only with the samples phase behind.
C23_SamplesThenStatus ==
    \A x \in PollExecs :
        /\ x.calls # <<>> => x.calls[1] = "getSamples"
        /\ x.pc = "status" => x.calls # <<>>
        /\ \A k, m \in 1..Len(x.calls) :
              (x.calls[k] \in StatusCalls /\ x.calls[m] \in SamplesCalls) => m < k

\* an execution that made all four calls
C23_Witness ==
    \E x \in PollExecs :
        x.calls = <<"getSamples", "processSamples", "getStatus", "processStatus">>

(***************************************************************************)
(* Properties of start() and stop().                                       *)
(***************************************************************************)
\* a job execution starts in this step
ExecStarts == \E j \in JobIds : Len(execs'[j]) > Len(execs[j])

\* stop() on a running service returns True in this step
StopReturnsTrue ==
    svcCall = NoSvcCall /\ svcCall'.op = "stop" /\ svcCall'.ret /\ svcCall'.was

\* C24: the scheduler is shut down only with both jobs removed; stop() on a
\* running service returns True only when no execution is in progress, and
\* is_running() is then false; no execution starts while the service is not
\* running.
C24_StopDrains ==
    [][/\ (schedRunning /\ ~schedRunning') => (jobs = {} /\ jobs' = {})
       /\ StopReturnsTrue =>
             /\ \A j \in JobIds : execs'[j] = <<>>
             /\ ~(isRunning' /\ schedRunning')
             /\ jobs' = {}
       /\ ExecStarts => (isRunning /\ schedRunning /\ stopping = "no")]_vars

\* stop() has returned True on a service that had executed its poll job
C24_Witness ==
    /\ svcCall.op = "stop" /\ svcCall.ret /\ svcCall.was
    /\ counters["poll"].ok + counters["poll"].failed >= 1
    /\ ~isRunning /\ jobs = {}

\* C25: while _is_running is set (start() has returned True and no stop()
\* has returned True since) and no stop() is in progress, both jobs are
\* registered and the scheduler is running.
C25_StartedMeansScheduled ==
    (isRunning /\ stopping = "no") => (jobs = JobIds /\ schedRunning)

(***************************************************************************)
(* Properties of the token manager.                                        *)
(***************************************************************************)
\* minutes from now to the expiry of the cached token
TokenLife == tokenExpiresAt - clock

\* C26: is_token_valid() is true exactly when a token is present and its
\* expiry lies more than 5 minutes after the current time: invalid with 4
\* minutes left, with none left and without a token, valid with 6 left.
C26_TokenValidity ==
    /\ IsTokenValid(ApiToken, clock) <=>
          (accessToken /\ tokenExpiresAt # NoExpiry /\ TokenLife > 5)
    /\ (accessToken /\ tokenExpiresAt # NoExpiry /\ TokenLife = 4)
          => ~IsTokenValid(ApiToken, clock)
    /\ (accessToken /\ tokenExpiresAt # NoExpiry /\ TokenLife = 6)
          => IsTokenValid(ApiToken, clock)
    /\ (accessToken /\ tokenExpiresAt # NoExpiry /\ TokenLife <= 0)
          => ~IsTokenValid(ApiToken, clock)
    /\ ~accessToken => ~IsTokenValid(ApiToken, clock)

\* a token that expires in 4 minutes is cached
C26_Witness ==
    accessToken /\ tokenExpiresAt # NoExpiry /\ TokenLife = 4

\* a token that expires in 6 minutes is cached
TokenWithSixMinutes ==
    accessToken /\ tokenExpiresAt # NoExpiry /\ TokenLife = 6

\* an expired token is cached
TokenExpired ==
    accessToken /\ tokenExpiresAt # NoExpiry /\ TokenLife <= 0

\* ensure_valid_token() returns in this step
EnsureStep == ApiIdle /\ apiCall'.op = "ensure"

\* C27: ensure_valid_token() authenticates exactly when is_token_valid() is
\* false at the call, and when it returns True the cached token is one
\* is_token_valid() reports valid.
C27_EnsureGivesValidToken ==
    [][EnsureStep =>
          /\ (Authentications(apiCall'.trace) > 0) <=> ~IsTokenValid(ApiToken, clock)
          /\ (apiCall'.exc = NoExc /\ apiCall'.ret) =>
                IsTokenValid(TokenState(accessToken', tokenExpiresAt'), clock')]_vars

\* authenticate() returns in this step
AuthenticateStep == ApiIdle /\ apiCall'.op = "authenticate"

\* a request of the call met a network-level failure
NetworkError(tr) == \E k \in 1..Len(tr) : tr[k].net # NoExc

\* C28: authenticate() ends with APIConnectionError whenever its
\* authorization request or its token exchange met a network-level failure,
\* and with AuthenticationError only when the last answer was a 401, a 403
\* or a 200 whose content could not be used.
C28_NetworkErrorsAreConnectionErrors ==
    [][AuthenticateStep =>
          LET tr == apiCall'.trace IN
          /\ NetworkError(tr) => apiCall'.exc = "APIConnectionError"
          /\ apiCall'.exc = "AuthenticationError" =>
                (~NetworkError(tr) /\ tr[Len(tr)].status \in {200, 401, 403})]_vars

(***************************************************************************)
(* Properties of the immediate triggers.                                   *)
(***************************************************************************)
\* trigger_immediate_poll / trigger_immediate_purge returns in this step
TriggerReturns(j) == svcCall = NoSvcCall /\ svcCall'.op = "trigger_" \o j

\* the firing a trigger call asked for is taken from job j in this step,
\* with the job still registered
TriggeredFiringHandled(j) == j \in triggered /\ j \notin triggered' /\ j \in jobs'

\* C29: a trigger call that returns True makes its job due at once, and the
\* firing it asked for starts one execution of the job body when the
\* scheduler handles it; on a service that is not running the call returns
\* False and makes nothing due.
C29_TriggerExecutesJob ==
    [][\A j \in JobIds :
          /\ (TriggerReturns(j) /\ svcCall'.ret) => (svcCall'.was /\ j \in due')
          /\ (TriggerReturns(j) /\ ~svcCall'.was) => (~svcCall'.ret /\ due' = due)
          /\ TriggeredFiringHandled(j) => Len(execs'[j]) = Len(execs[j]) + 1]_vars

(***************************************************************************)
(* Properties of the polling interval.                                     *)
(***************************************************************************)
\* update_polling_interval returns in this step
UpdateReturns == svcCall = NoSvcCall /\ svcCall'.op = "update_polling_interval"

\* C30: update_polling_interval(minutes) with minutes < 1 returns False and
\* leaves polling_interval, the interval get_status() reports and the trigger
\* of the registered poll job as they were, whatever the state of the service.
C30_SmallIntervalRejected ==
    [][(UpdateReturns /\ svcCall'.minutes < 1) =>
          /\ ~svcCall'.ret
          /\ pollingInterval' = pollingInterval
          /\ ServiceStatus'.polling_interval_minutes = ServiceStatus.polling_interval_minutes
          /\ pollTrigger' = pollTrigger]_vars

\* on a running service whose poll job had been rescheduled to 2 minutes, an
\* update to 0 minutes has been rejected
C30_Witness ==
    /\ svcCall.op = "update_polling_interval" /\ svcCall.minutes = 0 /\ ~svcCall.ret
    /\ isRunning /\ schedRunning /\ "poll" \in jobs
    /\ pollingInterval = 2 /\ pollTrigger = 2

\* start() of a stopped service succeeds in this step
StartSucceeds == svcCall = NoSvcCall /\ svcCall'.op = "start" /\ ~isRunning /\ isRunning'

ServiceStarts == ~isRunning /\ isRunning'

\* C32: the poll job that start() registers has a period of at least 1
\* minute, whatever the Settings Store holds.
C32_PeriodAtLeastOneMinute ==
    [][ServiceStarts => ("poll" \in jobs' /\ pollTrigger' >= 1)]_vars

\* C34: the end of an application context (a request handled) leaves the
\* service as it was: running, both jobs registered, no stop() begun.
C34_RequestsLeaveServiceRunning ==
    [][handled' = handled + 1 =>
          (stopping' = "no" /\ UNCHANGED <<isRunning, schedRunning, jobs>>)]_vars

\* C36: in one worker process at most one polling service is started.
C36_OneServicePerWorker == ~(isRunning /\ workerRunning)

\* C33: no storage session of a poll cycle is open while an API request of
\* that cycle (getSamples, getStatus, the sensor-metadata lookup and the
\* re-authentication it triggers) is in progress.
C33_NoSessionAcrossApiCall == \A x \in PollExecs : x.inSession = {}

\* C35: while the service is running with its poll job registered, the
\* polling_interval_minutes of get_status() is the period of the job's
\* trigger, after every update_polling_interval call.
C35_StatusIntervalIsTriggerPeriod ==
    (isRunning /\ schedRunning /\ "poll" \in jobs) =>
        ServiceStatus.polling_interval_minutes = pollTrigger

(***************************************************************************)
(* Properties of the manager authentication.                               *)
(***************************************************************************)
\* C37: an authenticate() from an address with max_attempts failed attempts
\* in the preceding hour raises AccountLockoutError and creates no session,
\* whatever the PIN; AccountLockoutError is raised only for an address whose
\* failed attempts of the preceding hour, the one of this call included,
\* reach max_attempts.
C37_LockoutAtMaxAttempts ==
    authCall.op = "authenticate" =>
        /\ authCall.recent >= MaxLoginAttempts =>
              (authCall.exc = "AccountLockoutError" /\ ~authCall.created)
        /\ authCall.exc = "AccountLockoutError" => authCall.after >= MaxLoginAttempts

\* C38: after a successful login from an address, no failed attempt recorded
\* before it counts toward the lockout of that address: the address has
\* max_attempts failed attempts to go.
C38_SuccessClearsFailedAttempts ==
    (authCall.op = "authenticate" /\ authCall.ret) => authCall.after = 0

====
